---------------------------- MODULE Spec2Model ----------------------------
(***************************************************************************)
(* A model of the "robots" toolchain: the grid compiler                    *)
(* (src/robots-bytecode.py, class Compiler) and the virtual machine that   *)
(* runs the compiled image (class VirtualMachine).                         *)
(*                                                                         *)
(* A source text is a sequence of rows, a row a sequence of one-character  *)
(* strings.  Bytes are naturals below 256.  Label indices, offsets and     *)
(* addresses are the 0-based numbers the program uses; TLA+ sequences are  *)
(* 1-based, so element n of a Python list is s[n + 1] here.                *)
(***************************************************************************)
EXTENDS Integers, Sequences, FiniteSets, TLC

VARIABLES
    src,            \* the source text handed to load_string
    phase,          \* how far compile / load / run has got
    err,            \* the exception that ended it ("" when none)
    dim,            \* Compiler.dim
    input_grid,     \* Compiler.input_grid
    mem_addrs,      \* Compiler.mem_addrs, in insertion order
    jump_labels,    \* Compiler.jump_labels
    entry_points,   \* Compiler.entry_points
    paths,          \* Compiler.paths, paths[n + 1] the block of label n
    header,         \* compile's header
    code,           \* compile's code
    label_offsets,  \* compile's label_offsets, a function on laid-out labels
    image,          \* the bytes compile returns
    precode,        \* the code segment as laid out, before linking
    bytecode,       \* VirtualMachine.bytecode
    memory,         \* VirtualMachine.memory
    mem_stride,     \* VirtualMachine.mem_stride
    processes,      \* VirtualMachine.processes
    running,        \* run's running_processes (process ids, 0-based)
    it,             \* position of run's for-loop iterator in running
    pass_start,     \* the processes live when the current pass began
    stepped,        \* the processes that executed an instruction in this pass
    last,           \* what the last instruction executed was
    access,         \* per process, the cell loop of its LOAD / STORE in progress
    walkers,        \* one grid walker per process
    wmemory,        \* the walkers' memory
    agree,          \* every VM effect so far was the walker's next effect
    room            \* the interpreter's Room: its grid, its robots, its run

vars == <<src, phase, err, dim, input_grid, mem_addrs, jump_labels,
          entry_points, paths, header, code, label_offsets, image, precode,
          bytecode, memory, mem_stride, processes, running, it, pass_start, stepped,
          last, access, walkers, wmemory, agree, room>>

-----------------------------------------------------------------------------
(* Bounds of the model.                                                    *)

\* Longest row of the exhaustively enumerated one-row sources.
MaxLen == 3
\* Deepest process stack the model follows; a deeper push ends the run.
MaxStack == 6
\* Depth at which the host interpreter gives up a recursion (RecursionError).
RecursionLimit == 8

-----------------------------------------------------------------------------
(* Bit and integer helpers with Python's semantics.                        *)

Min(a, b) == IF a < b THEN a ELSE b
Max(a, b) == IF a > b THEN a ELSE b

\* x >> n and x << n on unbounded integers (>> rounds toward minus infinity).
RECURSIVE Pow2(_)
Pow2(n) == IF n = 0 THEN 1 ELSE 2 * Pow2(n - 1)
Shr(x, n) == x \div Pow2(n)
Shl(x, n) == x * Pow2(n)

\* a & b and a | b on two's-complement integers of unbounded width.
RECURSIVE BitAnd(_, _)
BitAnd(a, b) ==
    IF a = 0 \/ b = 0 THEN 0
    ELSE IF a = -1 THEN b
    ELSE IF b = -1 THEN a
    ELSE (a % 2) * (b % 2) + 2 * BitAnd(a \div 2, b \div 2)

RECURSIVE BitOr(_, _)
BitOr(a, b) ==
    IF a = 0 THEN b
    ELSE IF b = 0 THEN a
    ELSE IF a = -1 \/ b = -1 THEN -1
    ELSE Max(a % 2, b % 2) + 2 * BitOr(a \div 2, b \div 2)

BitNot(a) == -a - 1

\* The position in a Python list of length n that index i names, 0-based;
\* -1 when list[i] raises IndexError.  Negative indices count from the end.
PyIndex(i, n) ==
    IF 0 <= i /\ i < n THEN i
    ELSE IF i < 0 /\ i >= -n THEN i + n
    ELSE -1

\* The concatenation of f[lo] .. f[hi], f a sequence of sequences.
RECURSIVE Flatten(_, _, _)
Flatten(f, lo, hi) ==
    IF lo > hi THEN <<>>
    ELSE IF lo = hi THEN f[lo]
    ELSE LET mid == (lo + hi) \div 2
         IN  Flatten(f, lo, mid) \o Flatten(f, mid + 1, hi)

\* The elements of a finite set of integers in increasing order.
SortedSeq(S) ==
    [i \in 1..Cardinality(S) |->
        CHOOSE a \in S : Cardinality({b \in S : b < a}) = i - 1]

-----------------------------------------------------------------------------
(* Tokens: lex_char, TokenType, dir_vec, ByteCode, StackOp.                *)

Digits == {"0", "1", "2", "3", "4", "5", "6", "7", "8", "9"}
StartChars == {"N", "S", "E", "W"}
TurnChars == {"<", "^", ">", "v"}
StackChars == {"-", "+", "*", "/", "%", "&", "|", "~", "!", ":", "$"}

lex_char(ch) ==
    IF ch = " " THEN "T_NOP"
    ELSE IF ch = ";" THEN "T_COMMENT"
    ELSE IF ch = "@" THEN "T_HALT"
    ELSE IF ch \in StartChars THEN "T_START"
    ELSE IF ch \in TurnChars THEN "T_TURN"
    ELSE IF ch \in StackChars THEN "T_STACK_OP"
    ELSE IF ch = "_" THEN "T_COND"
    ELSE IF ch \in Digits THEN "T_DIGIT"
    ELSE IF ch = "?" THEN "T_READ_BYTE"
    ELSE IF ch = "#" THEN "T_WRITE_BYTE"
    ELSE "ValueError"

DigitValue(ch) ==
    CASE ch = "0" -> 0 [] ch = "1" -> 1 [] ch = "2" -> 2 [] ch = "3" -> 3
      [] ch = "4" -> 4 [] ch = "5" -> 5 [] ch = "6" -> 6 [] ch = "7" -> 7
      [] ch = "8" -> 8 [] ch = "9" -> 9

dir_vec(ch) ==
    CASE ch \in {"^", "N"} -> [x |-> 0, y |-> -1]
      [] ch \in {"v", "S"} -> [x |-> 0, y |-> 1]
      [] ch \in {"<", "W"} -> [x |-> -1, y |-> 0]
      [] ch \in {">", "E"} -> [x |-> 1, y |-> 0]

OP_HALT == 0
OP_LOAD == 1
OP_STORE == 2
OP_STACK == 3
OP_JMP == 4
OP_JZ == 5
OP_PUSH == 8

STACK_SUB == 0
STACK_ADD == 1
STACK_MUL == 2
STACK_DIV == 3
STACK_MOD == 4
STACK_AND == 5
STACK_OR == 6
STACK_NOT == 7
STACK_POP == 8
STACK_SWAP == 9
STACK_DUP == 10

StackOpOf(ch) ==
    CASE ch = "-" -> STACK_SUB [] ch = "+" -> STACK_ADD
      [] ch = "*" -> STACK_MUL [] ch = "/" -> STACK_DIV
      [] ch = "%" -> STACK_MOD [] ch = "&" -> STACK_AND
      [] ch = "|" -> STACK_OR  [] ch = "~" -> STACK_NOT
      [] ch = "!" -> STACK_POP [] ch = "$" -> STACK_SWAP
      [] ch = ":" -> STACK_DUP

make_byte(op, arg) == op * 16 + arg

jump_bytes == {make_byte(OP_JMP, 15), make_byte(OP_JZ, 15)}

magic == <<74, 69, 68, 63>>
version == <<1, 0>>

-----------------------------------------------------------------------------
(* Compiler.load_string and Compiler.init_mem.                             *)

\* The position of the first ';' of a row, Len(r) + 1 when it has none.
CommentAt(r) ==
    LET cs == {k \in 1..Len(r) : r[k] = ";"}
    IN  IF cs = {} THEN Len(r) + 1 ELSE CHOOSE k \in cs : \A j \in cs : k <= j

\* The tokens load_string stores for a row: those before its comment.
LexRow(r) == SubSeq(r, 1, CommentAt(r) - 1)

\* load_string raises ValueError: a row whose length is not that of row 0,
\* or a character that lex_char does not know before the row's comment.
LoadStringFails(source) ==
    \E y \in 1..Len(source) :
        \/ Len(source[y]) # Len(source[1])
        \/ \E k \in 1..(CommentAt(source[y]) - 1) :
               lex_char(source[y][k]) = "ValueError"

\* init_mem: one (addr16, value) per digit token, row by row.
init_mem(grid, width) ==
    LET addrs == UNION {{(x - 1) + (y - 1) * width :
                           x \in {c \in 1..Len(grid[y]) :
                                     lex_char(grid[y][c]) = "T_DIGIT"}} :
                       y \in 1..Len(grid)}
        s == SortedSeq(addrs)
    IN  [i \in 1..Len(s) |->
            <<s[i], DigitValue(grid[(s[i] \div width) + 1][(s[i] % width) + 1])>>]

-----------------------------------------------------------------------------
(* Compiler.find_path_heads.                                               *)

Label(x, y, d, rc) == [location |-> [x |-> x, y |-> y], direction |-> d,
                       refcount |-> rc]

\* The labels one cell appends, in order.
CellLabels(ch, x, y) ==
    CASE lex_char(ch) = "T_START" -> <<Label(x, y, dir_vec(ch), 1)>>
      [] lex_char(ch) = "T_TURN" -> <<Label(x, y, dir_vec(ch), 0)>>
      [] lex_char(ch) = "T_COND" -> <<Label(x, y, dir_vec("<"), 0),
                                      Label(x, y, dir_vec(">"), 1)>>
      [] OTHER -> <<>>

\* The scan visits columns 0 .. len(input_grid[0]) - 1 of every row; the
\* number of cells it reads before input_grid[y][x] raises IndexError.
HeadCells(grid) ==
    LET w == Len(grid[1])
        short == {y \in 1..Len(grid) : Len(grid[y]) < w}
    IN  IF short = {} THEN [n |-> w * Len(grid), complete |-> TRUE]
        ELSE LET ys == CHOOSE y \in short : \A z \in short : y <= z
             IN  [n |-> w * (ys - 1) + Len(grid[ys]), complete |-> FALSE]

TooManyLabels(n) == n >= 255

find_path_heads(grid) ==
    LET w == Len(grid[1])
        hc == HeadCells(grid)
        per == [k \in 1..hc.n |->
                   CellLabels(grid[((k - 1) \div w) + 1][((k - 1) % w) + 1],
                              (k - 1) % w, (k - 1) \div w)]
        labels == Flatten(per, 1, hc.n)
        starts == {i \in 1..Len(labels) :
                      lex_char(grid[labels[i].location.y + 1]
                                   [labels[i].location.x + 1]) = "T_START"}
    IN  [jump_labels |-> labels,
         entry_points |-> SortedSeq({i - 1 : i \in starts}),
         error |-> IF TooManyLabels(Len(labels)) THEN "ValueError"
                   ELSE IF ~hc.complete THEN "IndexError"
                   ELSE ""]

\* get_label_index: the first label with this location and direction,
\* -1 when it raises ValueError("Label not found").
get_label_index(labels, loc, d) ==
    LET hits == {i \in 1..Len(labels) :
                    labels[i].location = loc /\ labels[i].direction = d}
    IN  IF hits = {} THEN -1
        ELSE (CHOOSE i \in hits : \A j \in hits : i <= j) - 1

-----------------------------------------------------------------------------
(* Compiler.parse_paths and Compiler.comp_jump_target.                     *)

\* The token at (x, y) as input_grid[y][x] reads it, "IndexError" when the
\* subscript is out of range.  A negative subscript counts from the end.
TokenAt(grid, x, y) ==
    LET r == PyIndex(y, Len(grid))
    IN  IF r = -1 THEN "IndexError"
        ELSE LET c == PyIndex(x, Len(grid[r + 1]))
             IN  IF c = -1 THEN "IndexError" ELSE grid[r + 1][c + 1]

\* The two bytes of PUSH addr16.
PushBytes(addr16) ==
    <<BitOr(OP_PUSH * 16, Shr(addr16, 8) % 128), addr16 % 256>>

\* The directions whose labels a COND's JZ and JMP target.
CondZeroDir == dir_vec(">")
CondNonZeroDir == dir_vec("<")

\* The jumps a path emits when it ends at a terminator token at (x, y):
\* a sequence of <<opcode, label location, label direction>>.
TerminatorJumps(ch, x, y) ==
    LET loc == [x |-> x, y |-> y]
    IN  CASE lex_char(ch) \in {"T_TURN", "T_START"} ->
                 <<<<OP_JMP, loc, dir_vec(ch)>>>>
          [] lex_char(ch) = "T_COND" ->
                 <<<<OP_JZ, loc, CondZeroDir>>, <<OP_JMP, loc, CondNonZeroDir>>>>
          [] OTHER -> <<>>

\* The bytes a non-terminator token emits.
TokenBytes(ch, x, y, width) ==
    CASE lex_char(ch) = "T_DIGIT" -> PushBytes(x + y * width)
      [] lex_char(ch) = "T_STACK_OP" -> <<make_byte(OP_STACK, StackOpOf(ch))>>
      [] lex_char(ch) = "T_READ_BYTE" -> <<make_byte(OP_LOAD, 0)>>
      [] lex_char(ch) = "T_WRITE_BYTE" -> <<make_byte(OP_STORE, 0)>>
      [] OTHER -> <<>>

IsTerminal(ch) == lex_char(ch) \in {"T_HALT", "T_START", "T_TURN", "T_COND"}

\* The cell a walk from label lab is at after k steps.
StepX(lab, k) == lab.location.x + k * lab.direction.x
StepY(lab, k) == lab.location.y + k * lab.direction.y
TokenAfter(grid, lab, k) == TokenAt(grid, StepX(lab, k), StepY(lab, k))

\* The walk of a path ends at this token: the subscript raises, the token
\* is a terminator, or it is a digit whose address PUSH cannot hold.
StopsAt(tok, addr16) ==
    \/ tok = "IndexError"
    \/ IsTerminal(tok)
    \/ lex_char(tok) = "T_DIGIT" /\ addr16 > 32767

\* The number of steps after which the walk from lab ends.
PathLength(grid, width, lab) ==
    LET stops == {k \in 1..(2 * Max(width, Len(grid)) + 2) :
                     StopsAt(TokenAfter(grid, lab, k),
                             StepX(lab, k) + StepY(lab, k) * width)}
    IN  CHOOSE k \in stops : \A j \in stops : k <= j

\* The bytes of the tokens the walk passes before it ends.
WalkBody(grid, width, lab, stop) ==
    Flatten([k \in 1..(stop - 1) |->
                TokenBytes(TokenAfter(grid, lab, k), StepX(lab, k),
                           StepY(lab, k), width)], 1, stop - 1)

\* The result of a walk that ends with jumps to the labels `targets`
\* (0-based indices, -1 for a jump whose label comp_jump_target does not
\* find: it raises there, with the refcounts of the targets before it
\* already increased).
WalkJumps(body, jumps, targets) ==
    LET bad == {j \in 1..Len(jumps) : targets[j] = -1}
    IN  [path |-> body \o Flatten([j \in 1..Len(jumps) |->
                                      <<make_byte(jumps[j][1], 15), targets[j]>>],
                                  1, Len(jumps)),
         targets |-> SubSeq(targets, 1,
                            IF bad = {} THEN Len(jumps)
                            ELSE (CHOOSE j \in bad : \A i \in bad : j <= i) - 1),
         error |-> IF bad = {} THEN "" ELSE "ValueError"]

WalkTargets(labels, body, jumps) ==
    WalkJumps(body, jumps,
              [j \in 1..Len(jumps) |->
                  get_label_index(labels, jumps[j][2], jumps[j][3])])

\* The result of a walk whose body is `body` and that ends at token tok.
WalkEnd(labels, body, tok, x, y) ==
    IF tok = "IndexError"
    THEN [path |-> body, targets |-> <<>>, error |-> "IndexError"]
    ELSE IF ~IsTerminal(tok)
    THEN [path |-> body, targets |-> <<>>, error |-> "ValueError"]
    ELSE IF lex_char(tok) = "T_HALT"
    THEN [path |-> Append(body, make_byte(OP_HALT, 0)), targets |-> <<>>,
          error |-> ""]
    ELSE WalkTargets(labels, body, TerminatorJumps(tok, x, y))

WalkFrom(grid, width, labels, lab, stop) ==
    WalkEnd(labels, WalkBody(grid, width, lab, stop),
            TokenAfter(grid, lab, stop), StepX(lab, stop), StepY(lab, stop))

\* The walk of label n: the bytes of its path, the labels its jumps target
\* and the exception that ended it, if any.
WalkPath(grid, width, labels, n) ==
    WalkFrom(grid, width, labels, labels[n + 1],
             PathLength(grid, width, labels[n + 1]))

\* parse_paths keeps the walks before the first one that raised, and the
\* refcounts of the jumps emitted up to it.
CollectWalks(labels, walks, first) ==
    [paths |-> [i \in 1..(first - 1) |-> walks[i].path],
     jump_labels |->
         [i \in 1..Len(labels) |->
             [labels[i] EXCEPT !.refcount = @ + Cardinality(
                 {ij \in (1..Min(first, Len(labels))) \X (1..2) :
                     /\ ij[2] <= Len(walks[ij[1]].targets)
                     /\ walks[ij[1]].targets[ij[2]] = i - 1})]],
     error |-> IF first > Len(labels) THEN "" ELSE walks[first].error]

FirstFailed(walks) ==
    LET failed == {i \in 1..Len(walks) : walks[i].error # ""}
    IN  IF failed = {} THEN Len(walks) + 1
        ELSE CHOOSE i \in failed : \A j \in failed : i <= j

WalkAll(labels, walks) == CollectWalks(labels, walks, FirstFailed(walks))

\* parse_paths walks the labels in order and stops at the first exception.
parse_paths(grid, width, labels) ==
    WalkAll(labels, [i \in 1..Len(labels) |-> WalkPath(grid, width, labels, i - 1)])

-----------------------------------------------------------------------------
(* Compiler.build_header, Compiler.maximally_extend_path.                  *)

build_header(entries) ==
    magic \o version \o <<255, 255>> \o <<255>> \o <<255>>
          \o <<Len(entries)>> \o entries

IsPush(byte) == byte >= 128

\* Where a scan that stands at index i is after its "skip over PUSH" branch
\* has been taken as often as it applies: the first of i, i + 2, i + 4, ...
\* that is past the end or is no PUSH byte.
SkipPush(path, i) ==
    LET At(k) == i + 2 * k
        Ends(k) == At(k) >= Len(path) \/ ~IsPush(path[At(k) + 1])
    IN  At(CHOOSE k \in 0..Len(path) : Ends(k) /\ \A j \in 0..(k - 1) : ~Ends(j))

\* The indices at which the scan loop of maximally_extend_path and of the
\* layout tests a byte of a block it does not change, from index i0 on: a
\* PUSH byte takes it two bytes on, every other byte, a jump too, one.
RECURSIVE ScanExamined(_, _)
ScanExamined(path, i0) ==
    LET i == SkipPush(path, i0)
    IN  {j \in i0..Min(i, Len(path) - 1) : (j - i0) % 2 = 0}
        \cup (IF i >= Len(path) THEN {} ELSE ScanExamined(path, i + 1))

\* Whether the coalescer splices the block of a label into its only caller.
Inlinable(label) == label.refcount < 2

\* The index the coalescer's scan goes on from after a splice at index i.
AfterSplice(i) == i + 1

\* The block `mine` with the two bytes of the jump at index i replaced by
\* the block `theirs`.
Splice(mine, i, theirs) ==
    SubSeq(mine, 1, i) \o theirs \o SubSeq(mine, i + 3, Len(mine))

\* maximally_extend_path(path_index) at recursion depth `depth`, on the
\* blocks ps: the blocks afterwards (the call changes them in place) and
\* the exception that ended it, if any.  ExtendScan is its loop from index
\* i0, ExtendAt the loop body at the first index that is no PUSH, and
\* ExtendSpliced what follows the recursive call, whose result is r.
RECURSIVE maximally_extend_path(_, _, _, _)
RECURSIVE ExtendScan(_, _, _, _, _)
RECURSIVE ExtendAt(_, _, _, _, _)
RECURSIVE ExtendSpliced(_, _, _, _, _, _)
\* A coalescer that splices the block of the target as it stands, without
\* extending it first, and ends its scan there.
SpliceOnce(ps, labels, n, i, depth) ==
    IF i >= Len(ps[n + 1]) THEN [paths |-> ps, error |-> ""]
    ELSE IF ps[n + 1][i + 1] \notin jump_bytes
    THEN ExtendScan(ps, labels, n, i + 1, depth)
    ELSE IF i + 1 >= Len(ps[n + 1]) \/ ps[n + 1][i + 2] >= Len(labels)
    THEN [paths |-> ps, error |-> "IndexError"]
    ELSE IF ~Inlinable(labels[ps[n + 1][i + 2] + 1])
    THEN ExtendScan(ps, labels, n, i + 1, depth)
    ELSE [paths |-> [ps EXCEPT ![n + 1] =
                        Splice(ps[n + 1], i, ps[ps[n + 1][i + 2] + 1])],
          error |-> ""]

maximally_extend_path(ps, labels, n, depth) ==
    IF depth > RecursionLimit
    THEN [paths |-> ps, error |-> "RecursionError"]
    ELSE ExtendScan(ps, labels, n, 0, depth)

ExtendScan(ps, labels, n, i0, depth) ==
    ExtendAt(ps, labels, n, SkipPush(ps[n + 1], i0), depth)

ExtendAt(ps, labels, n, i, depth) ==
    IF i >= Len(ps[n + 1]) THEN [paths |-> ps, error |-> ""]
    ELSE IF ps[n + 1][i + 1] \notin jump_bytes
    THEN ExtendScan(ps, labels, n, i + 1, depth)
    ELSE IF i + 1 >= Len(ps[n + 1]) \/ ps[n + 1][i + 2] >= Len(labels)
    THEN [paths |-> ps, error |-> "IndexError"]
    ELSE IF ~Inlinable(labels[ps[n + 1][i + 2] + 1])
    THEN ExtendScan(ps, labels, n, i + 1, depth)
    ELSE ExtendSpliced(
             maximally_extend_path(ps, labels, ps[n + 1][i + 2], depth + 1),
             labels, n, i, ps[n + 1][i + 2], depth)

ExtendSpliced(r, labels, n, i, target, depth) ==
    IF r.error # "" THEN r
    ELSE ExtendScan([r.paths EXCEPT ![n + 1] =
                        Splice(r.paths[n + 1], i, r.paths[target + 1])],
                    labels, n, AfterSplice(i), depth)

\* compile's loop over the labels, from label k on; CoalesceNext is what
\* follows the call for label k, whose result is r.
RECURSIVE CoalesceFrom(_, _, _)
RECURSIVE CoalesceNext(_, _, _)
CoalesceFrom(ps, labels, k) ==
    IF k >= Len(labels) THEN [paths |-> ps, error |-> ""]
    ELSE CoalesceNext(
             maximally_extend_path(
                 ps, labels,
                 get_label_index(labels, labels[k + 1].location,
                                 labels[k + 1].direction), 1),
             labels, k)

CoalesceNext(r, labels, k) ==
    IF r.error # "" THEN r ELSE CoalesceFrom(r.paths, labels, k + 1)

\* The labels whose blocks the scan of maximally_extend_path(n) splices
\* from index i0 on, in order, those of its recursive calls included (none
\* once a call has raised).
RECURSIVE SpliceTargets(_, _, _, _, _)
SpliceTargets(ps, labels, n, i0, depth) ==
    LET i == SkipPush(ps[n + 1], i0)
    IN  IF i >= Len(ps[n + 1]) THEN <<>>
        ELSE IF ps[n + 1][i + 1] \notin jump_bytes
        THEN SpliceTargets(ps, labels, n, i + 1, depth)
        ELSE IF i + 1 >= Len(ps[n + 1]) \/ ps[n + 1][i + 2] >= Len(labels)
        THEN <<>>
        ELSE IF ~Inlinable(labels[ps[n + 1][i + 2] + 1])
        THEN SpliceTargets(ps, labels, n, i + 1, depth)
        ELSE LET target == ps[n + 1][i + 2]
                 r == maximally_extend_path(ps, labels, target, depth + 1)
             IN  IF r.error # "" THEN <<>>
                 ELSE SpliceTargets(ps, labels, target, 0, depth + 1)
                      \o <<target>>
                      \o SpliceTargets(
                             [r.paths EXCEPT ![n + 1] =
                                 Splice(r.paths[n + 1], i, r.paths[target + 1])],
                             labels, n, AfterSplice(i), depth)

\* The labels compile's loop over the labels splices, from label k on.
RECURSIVE CoalesceSplices(_, _, _)
CoalesceSplices(ps, labels, k) ==
    IF k >= Len(labels) THEN <<>>
    ELSE LET n == get_label_index(labels, labels[k + 1].location,
                                  labels[k + 1].direction)
             r == maximally_extend_path(ps, labels, n, 1)
         IN  IF r.error # "" THEN <<>>
             ELSE SpliceTargets(ps, labels, n, 0, 1)
                  \o CoalesceSplices(r.paths, labels, k + 1)

-----------------------------------------------------------------------------
(* Compiler.compile: layout of the reachable blocks.                       *)

\* The scan of one block for the blocks to follow, from index i0: the label
\* indices it appends to path_stack, in order.  LayoutAt is the loop body
\* at the first index that is no PUSH.
RECURSIVE LayoutScan(_, _, _)
RECURSIVE LayoutAt(_, _, _)
LayoutScan(path, i0, seen) == LayoutAt(path, SkipPush(path, i0), seen)

Pushed(label, seen, r) ==
    IF label \in seen THEN r
    ELSE [push |-> <<label>> \o r.push, error |-> r.error]

LayoutAt(path, i, seen) ==
    IF i >= Len(path) THEN [push |-> <<>>, error |-> ""]
    ELSE IF path[i + 1] \notin jump_bytes THEN LayoutScan(path, i + 1, seen)
    ELSE IF i + 1 >= Len(path) THEN [push |-> <<>>, error |-> "IndexError"]
    ELSE Pushed(path[i + 2], seen, LayoutScan(path, i + 1, seen))

\* The layout loop: path_stack is popped from its end; LayoutBlock lays
\* out the block of the popped label n, whose scan gave `scan`.
RECURSIVE LayoutLoop(_, _, _, _, _, _)
RECURSIVE LayoutBlock(_, _, _, _, _, _, _, _)
LayoutLoop(ps, path_stack, seen, offs, segment, offset) ==
    IF path_stack = <<>>
    THEN [code |-> segment, label_offsets |-> offs, error |-> ""]
    ELSE IF path_stack[Len(path_stack)] >= Len(ps)
    THEN [code |-> segment, label_offsets |-> offs, error |-> "KeyError"]
    ELSE LayoutBlock(ps, SubSeq(path_stack, 1, Len(path_stack) - 1),
                     seen \cup {path_stack[Len(path_stack)]}, offs, segment,
                     offset, path_stack[Len(path_stack)],
                     LayoutScan(ps[path_stack[Len(path_stack)] + 1], 0,
                                seen \cup {path_stack[Len(path_stack)]}))

LayoutBlock(ps, rest, seen, offs, segment, offset, n, scan) ==
    IF scan.error # ""
    THEN [code |-> segment, label_offsets |-> offs, error |-> scan.error]
    ELSE LayoutLoop(ps, rest \o scan.push, seen,
                    [k \in DOMAIN offs \cup {n} |->
                        IF k = n THEN offset ELSE offs[k]],
                    segment \o ps[n + 1], offset + Len(ps[n + 1]))

-----------------------------------------------------------------------------
(* Compiler.compile: header fields, linking, the image.                    *)

\* The bytes of the next instruction that resolve_jump_addresses steps over
\* when the byte at index i is a long-form jump.
JumpWidth == 2

\* A linker that leaves every jump operand as the label index it holds.
LeaveLabelIndices(segment, offs, i0) == [code |-> segment, error |-> ""]

\* resolve_jump_addresses from index i0: the code afterwards, the exception.
\* ResolveAt is the loop body at the first index that is no PUSH.
RECURSIVE resolve_jump_addresses(_, _, _)
RECURSIVE ResolveAt(_, _, _)
resolve_jump_addresses(segment, offs, i0) ==
    ResolveAt(segment, offs, SkipPush(segment, i0))

ResolveAt(segment, offs, i) ==
    IF i >= Len(segment) THEN [code |-> segment, error |-> ""]
    ELSE IF segment[i + 1] \notin jump_bytes
    THEN resolve_jump_addresses(segment, offs, i + 1)
    ELSE IF i + 1 >= Len(segment) THEN [code |-> segment, error |-> "IndexError"]
    ELSE IF segment[i + 2] \notin DOMAIN offs
    THEN [code |-> segment, error |-> "KeyError"]
    ELSE IF offs[segment[i + 2]] > 255
    THEN [code |-> segment, error |-> "ValueError"]
    ELSE resolve_jump_addresses(
             [segment EXCEPT ![i + 2] = offs[segment[i + 2]]], offs,
             i + JumpWidth)

\* resolve_entry_addresses: the header with the entry offsets written.
resolve_entry_addresses(hdr, entries, offs) ==
    [k \in 1..Len(hdr) |->
        IF k >= 12 /\ k - 12 < Len(entries) THEN offs[entries[k - 11]]
        ELSE hdr[k]]

build_footer(addrs) ==
    Flatten([k \in 1..Len(addrs) |->
                <<Shr(addrs[k][1], 8) % 256, addrs[k][1] % 256, addrs[k][2]>>],
            1, Len(addrs))

\* Whether dis(code), which compile calls to print the code, raises: an
\* opcode nibble it cannot name, or an operand byte past the end.
RECURSIVE DisFails(_, _)
RECURSIVE DisFailsAt(_, _)
DisFails(segment, i0) == DisFailsAt(segment, SkipPush(segment, i0))

DisFailsAt(segment, i) ==
    IF i > Len(segment) THEN TRUE
    ELSE IF i = Len(segment) THEN FALSE
    ELSE IF segment[i + 1] \div 16 \in {6, 7} THEN TRUE
    ELSE IF segment[i + 1] \in jump_bytes
    THEN i + 1 >= Len(segment) \/ DisFails(segment, i + 2)
    ELSE DisFails(segment, i + 1)

\* The one-byte data-segment field of the header.
DataOffsetByte(data_offset) == data_offset % 256

\* The two bytes of the memory-length field of the header.
MemLengthBytes(mem_length) == <<Shr(mem_length, 8) % 256, mem_length % 256>>

-----------------------------------------------------------------------------
(* The memory buffer.  A bytearray of `length` bytes is kept as its length *)
(* and its non-zero cells.                                                 *)

NoCells == [a \in {} |-> 0]

MemGet(m, idx) == IF idx \in DOMAIN m.cells THEN m.cells[idx] ELSE 0

MemPut(m, idx, v) ==
    [m EXCEPT !.cells =
        [a \in (IF v = 0 THEN DOMAIN m.cells \ {idx}
                ELSE DOMAIN m.cells \cup {idx}) |->
            IF a = idx THEN v ELSE m.cells[a]]]

-----------------------------------------------------------------------------
(* Stack.math and Stack.op.  A stack is a sequence, its top the last       *)
(* element.  Each operator gives the stack afterwards and the exception    *)
(* raised, if any.                                                         *)

Top(st) == st[Len(st)]
Pop(st) == SubSeq(st, 1, Len(st) - 1)

PyFloorDiv(b, a) == IF a > 0 THEN b \div a ELSE (-b) \div (-a)
PyMod(b, a) == IF a > 0 THEN b % a ELSE -((-b) % (-a))

\* A subtraction that takes the value popped first as its left operand.
TopOnTheLeft(op, b, a) ==
    CASE op = STACK_SUB -> a - b
      [] op = STACK_ADD -> b + a
      [] op = STACK_MUL -> b * a
      [] op = STACK_DIV -> PyFloorDiv(b, a)
      [] op = STACK_MOD -> PyMod(b, a)
      [] op = STACK_AND -> BitAnd(b, a)
      [] op = STACK_OR -> BitOr(b, a)

\* The value a binary operator pushes: a was popped first, b second.
BinaryResult(op, b, a) ==
    CASE op = STACK_SUB -> b - a
      [] op = STACK_ADD -> b + a
      [] op = STACK_MUL -> b * a
      [] op = STACK_DIV -> PyFloorDiv(b, a)
      [] op = STACK_MOD -> PyMod(b, a)
      [] op = STACK_AND -> BitAnd(b, a)
      [] op = STACK_OR -> BitOr(b, a)

StackMath(st, op) ==
    IF op = STACK_NOT
    THEN IF Len(st) < 1 THEN [stack |-> st, error |-> "IndexError"]
         ELSE [stack |-> Append(Pop(st), BitNot(Top(st))), error |-> ""]
    ELSE IF Len(st) < 2 THEN [stack |-> <<>>, error |-> "IndexError"]
    ELSE LET a == Top(st)
             b == Top(Pop(st))
             rest == Pop(Pop(st))
         IN  IF op \in {STACK_DIV, STACK_MOD} /\ a = 0
             THEN [stack |-> rest, error |-> "ZeroDivisionError"]
             ELSE IF op > STACK_OR THEN [stack |-> rest, error |-> "ValueError"]
             ELSE [stack |-> Append(rest, BinaryResult(op, b, a)), error |-> ""]

StackOp(st, op) ==
    IF op = STACK_POP
    THEN IF Len(st) < 1 THEN [stack |-> st, error |-> "IndexError"]
         ELSE [stack |-> Pop(st), error |-> ""]
    ELSE IF op = STACK_SWAP
    THEN IF Len(st) < 2 THEN [stack |-> st, error |-> "IndexError"]
         ELSE [stack |-> Pop(Pop(st)) \o <<Top(st), Top(Pop(st))>>, error |-> ""]
    ELSE IF op = STACK_DUP
    THEN IF Len(st) < 1 THEN [stack |-> st, error |-> "IndexError"]
         ELSE [stack |-> Append(st, Top(st)), error |-> ""]
    ELSE StackMath(st, op)

-----------------------------------------------------------------------------
(* VirtualMachine._load_byte and VirtualMachine._store_byte.               *)

\* The cell the i-th access of a walk from (x, y) by (dx, dy) names.
CellOffset(x, y, dx, dy, i, stride) == (x + i * dx) + (y + i * dy) * stride

\* Weights that make the first cell read the least significant bit.
LsbFirstShift(i) == i

\* The weight of the i-th cell read (i = 0 .. 7) in the byte LOAD builds.
BitShift(i) == 7 - i

\* A store that writes the least significant bit first.
LsbFirstBit(value, i) == Shr(value, i) % 2

\* The bit the i-th iteration of _store_byte writes.
StoredBit(value, i) == Shr(value, BitShift(i)) % 2

\* A store without the mask: the cell gets value >> (7 - i) as it is.
WriteUnmasked(m, idx, i, value) == MemPut(m, idx, Shr(value, BitShift(i)))

\* One iteration of the loop of _load_byte, of _store_byte: the value built
\* so far after the read of cell idx, the memory after the write to it.
ReadCell(m, idx, i, value) == BitOr(value, Shl(MemGet(m, idx), BitShift(i)))
WriteCell(m, idx, i, value) == MemPut(m, idx, StoredBit(value, i))

\* The loop of _load_byte from its i-th iteration on, `value` what it has
\* built so far: the byte, and the exception a cell access raised, if any.
\* (The value of an iteration is bound once, by the \in, for the next.)
RECURSIVE LoadBits(_, _, _, _, _, _, _, _)
LoadBits(m, stride, x, y, dx, dy, i, value) ==
    IF i = 8 THEN [value |-> value, error |-> ""]
    ELSE LET idx == PyIndex(CellOffset(x, y, dx, dy, i, stride), m.length)
         IN  IF idx = -1 THEN [value |-> value, error |-> "IndexError"]
             ELSE CHOOSE r \in
                      {LoadBits(m, stride, x, y, dx, dy, i + 1, v) :
                          v \in {ReadCell(m, idx, i, value)}} :
                      TRUE

\* _load_byte: pops dy, dx, y, x; pushes the byte.
LoadByte(st, m, stride) ==
    IF Len(st) < 4 THEN [stack |-> <<>>, error |-> "IndexError"]
    ELSE LET n == Len(st)
             r == LoadBits(m, stride, st[n - 3], st[n - 2], st[n - 1], st[n], 0, 0)
             rest == SubSeq(st, 1, n - 4)
         IN  IF r.error # "" THEN [stack |-> rest, error |-> r.error]
             ELSE [stack |-> Append(rest, r.value), error |-> ""]

\* The loop of _store_byte from its i-th iteration on, m the memory so far.
RECURSIVE StoreBits(_, _, _, _, _, _, _, _)
StoreBits(m, stride, x, y, dx, dy, i, value) ==
    IF i = 8 THEN [memory |-> m, error |-> ""]
    ELSE LET idx == PyIndex(CellOffset(x, y, dx, dy, i, stride), m.length)
         IN  IF idx = -1 THEN [memory |-> m, error |-> "IndexError"]
             ELSE CHOOSE r \in
                      {StoreBits(mm, stride, x, y, dx, dy, i + 1, value) :
                          mm \in {WriteCell(m, idx, i, value)}} :
                      TRUE

\* _store_byte: pops dy, dx, y, x, value; writes the eight cells.
StoreByte(st, m, stride) ==
    IF Len(st) < 5 THEN [stack |-> <<>>, memory |-> m, error |-> "IndexError"]
    ELSE LET n == Len(st)
             r == StoreBits(m, stride, st[n - 3], st[n - 2], st[n - 1], st[n],
                            0, st[n - 4])
         IN  [stack |-> SubSeq(st, 1, n - 5), memory |-> r.memory,
              error |-> r.error]

-----------------------------------------------------------------------------
(* VirtualMachine.load and VirtualMachine._init_mem.                       *)

\* The memory length load computes from header bytes 6 and 7.
LoadedMemLength(b6, b7) == BitOr(Shl(b6 % 256, 8), Shl(b7 % 256, 8))

\* The address of the k-th record of the data segment (k = 1, 2, ...) and
\* the index of its first byte.
RecordAt(data_offset, k) == data_offset + 3 * (k - 1)
RecordAddr(bytes, data_offset, k) ==
    BitOr(Shl(bytes[RecordAt(data_offset, k) + 1], 8),
          bytes[RecordAt(data_offset, k) + 2])

\* The number of records _init_mem writes before one raises IndexError: a
\* record cut short by the end of the image, or an address past the buffer.
RecordsWritten(bytes, mem_length, data_offset, count) ==
    LET bad == {k \in 1..count :
                   \/ RecordAt(data_offset, k) + 2 >= Len(bytes)
                   \/ RecordAddr(bytes, data_offset, k) >= mem_length}
    IN  IF bad = {} THEN count
        ELSE (CHOOSE k \in bad : \A j \in bad : k <= j) - 1

\* The value the buffer holds at address a after the first `good` records:
\* that of the last record with this address, 0 when there is none.
RecordValue(bytes, data_offset, good, a) ==
    LET ks == {k \in 1..good : RecordAddr(bytes, data_offset, k) = a}
    IN  IF ks = {} THEN 0
        ELSE bytes[RecordAt(data_offset, CHOOSE k \in ks : \A j \in ks : j <= k) + 3]

InitMemWritten(bytes, mem_length, data_offset, count, good) ==
    [memory |->
        [length |-> mem_length,
         cells |-> [a \in {RecordAddr(bytes, data_offset, k) : k \in
                             {j \in 1..good :
                                 RecordValue(bytes, data_offset, good,
                                     RecordAddr(bytes, data_offset, j)) # 0}}
                       |-> RecordValue(bytes, data_offset, good, a)]],
     error |-> IF good = count THEN "" ELSE "IndexError"]

InitMemRecords(bytes, mem_length, data_offset, count) ==
    InitMemWritten(bytes, mem_length, data_offset, count,
                   RecordsWritten(bytes, mem_length, data_offset, count))

\* _init_mem: the buffer after the records from data_offset to the end of
\* the image have been written, and the exception that ended it, if any.
InitMem(bytes, mem_length, data_offset) ==
    InitMemRecords(bytes, mem_length, data_offset,
                   IF data_offset >= Len(bytes) THEN 0
                   ELSE (Len(bytes) - data_offset + 2) \div 3)

\* The processes load appends: one per entry, its pc the entry's byte; the
\* read of an entry past the end of the image ends the loop with IndexError.
SpawnProcesses(bytes) ==
    [i \in 1..Min(bytes[11], Len(bytes) - 11) |->
        [pc |-> bytes[11 + i], stack |-> <<>>, stopped |-> FALSE]]

\* A load that checks the length of the image only.
LongEnough(bytes) == Len(bytes) >= 10

\* load gets as far as _init_mem: the magic and the version are the
\* expected ones, and the header fields it reads are there.
HeaderAccepted(bytes) ==
    /\ Len(bytes) >= 10
    /\ SubSeq(bytes, 1, 4) = magic
    /\ SubSeq(bytes, 5, 6) = version

\* Byte arrays load is handed: the image, the image with the first byte of
\* its magic or of its version changed, the image cut short inside them.
Handed(bytes) ==
    {bytes}
    \cup {[bytes EXCEPT ![k] = (@ + 1) % 256] : k \in {1, 5}}
    \cup {SubSeq(bytes, 1, n) : n \in {3, 5}}

\* The exception load raises, "" when it returns: the magic and the version
\* are checked first, then the memory is built, then the processes spawned.
LoadError(bytes, mem_error) ==
    IF Len(bytes) < 4 \/ SubSeq(bytes, 1, 4) # magic THEN "ValueError"
    ELSE IF Len(bytes) < 6 \/ SubSeq(bytes, 5, 6) # version THEN "ValueError"
    ELSE IF Len(bytes) < 10 THEN "IndexError"
    ELSE IF mem_error # "" THEN mem_error
    ELSE IF Len(bytes) < 11 \/ Len(bytes) < 11 + bytes[11] THEN "IndexError"
    ELSE ""

-----------------------------------------------------------------------------
(* VirtualMachine.run: one instruction of one process.                     *)

\* Largest magnitude of a stack value the model follows.
MaxValue == 4096

\* A jump after which the closing pc += 1 of the loop is skipped.
BeforeTarget(target) == target - 1

\* The target of a taken jump whose operand (or arg nibble) is `target`:
\* run sets pc = target - 1 and its closing pc += 1 follows.
JumpTo(target) == (target - 1) + 1

\* Whether JZ takes its jump on the value it popped.
JzTaken(v) == v = 0

\* What the instruction at proc.pc is, as an effect on the machine:
\* <<"PUSH", addr16>>, <<"STACK", sub-op>>, <<"LOAD">>, <<"STORE">>,
\* <<"COND">> (JZ), <<"HALT">>, <<"JMP">>, or <<"FETCH">> when the fetch
\* of the opcode or of its operand byte raises.
Decode(bytes, pc) ==
    IF PyIndex(pc, Len(bytes)) = -1 THEN <<"FETCH">>
    ELSE LET byte == bytes[pc + 1]
             op == byte \div 16
             arg == byte % 16
         IN  IF op >= 8
             THEN IF pc + 1 >= Len(bytes) THEN <<"FETCH">>
                  ELSE <<"PUSH", (byte % 128) * 256 + bytes[pc + 2]>>
             ELSE IF op = OP_HALT THEN <<"HALT">>
             ELSE IF op = OP_LOAD THEN <<"LOAD">>
             ELSE IF op = OP_STORE THEN <<"STORE">>
             ELSE IF op = OP_STACK THEN <<"STACK", arg>>
             ELSE IF op \in {OP_JZ, OP_JMP}
             THEN IF arg = 15 /\ pc + 1 >= Len(bytes) THEN <<"FETCH">>
                  ELSE IF op = OP_JZ THEN <<"COND">> ELSE <<"JMP">>
             ELSE <<"BAD">>

\* The outcome of one instruction.
Done(st, mm, npc, halted, e) ==
    [proc |-> [pc |-> npc, stack |-> st, stopped |-> halted],
     memory |-> mm, error |-> e]

\* The outcome of an instruction that only works on the stack and the
\* memory, r what it did to them: the closing pc += 1 is not reached when
\* it raised.
DoneOp(pc, r, mm) ==
    Done(r.stack, mm, IF r.error = "" THEN pc + 1 ELSE pc, FALSE, r.error)

StoreDone(pc, r) == DoneOp(pc, r, r.memory)

\* The operand of the jump at pc and the index of the instruction after it.
JumpTarget(bytes, pc) ==
    IF bytes[pc + 1] % 16 = 15 THEN bytes[pc + 2] ELSE bytes[pc + 1] % 16
JumpNext(bytes, pc) == IF bytes[pc + 1] % 16 = 15 THEN pc + 2 ELSE pc + 1

\* The process and the memory after the instruction at pc, whose effect is
\* eff, and the exception it raised, if any.
ExecEffect(bytes, m, stride, pc, st, eff) ==
    CASE eff[1] = "FETCH" -> Done(st, m, pc, FALSE, "IndexError")
      [] eff[1] = "BAD" -> Done(st, m, pc, FALSE, "ValueError")
      [] eff[1] = "PUSH" ->
             IF eff[2] >= m.length THEN Done(st, m, pc, FALSE, "IndexError")
             ELSE Done(Append(st, MemGet(m, eff[2])), m, pc + 2, FALSE, "")
      [] eff[1] = "HALT" -> Done(st, m, pc + 1, TRUE, "")
      [] eff[1] = "LOAD" -> DoneOp(pc, LoadByte(st, m, stride), m)
      [] eff[1] = "STORE" -> StoreDone(pc, StoreByte(st, m, stride))
      [] eff[1] = "STACK" -> DoneOp(pc, StackOp(st, eff[2]), m)
      [] eff[1] = "COND" ->
             IF st = <<>>
             THEN Done(st, m, JumpNext(bytes, pc) - 1, FALSE, "IndexError")
             ELSE Done(Pop(st), m,
                       IF JzTaken(Top(st)) THEN JumpTo(JumpTarget(bytes, pc))
                       ELSE JumpNext(bytes, pc),
                       FALSE, "")
      [] eff[1] = "JMP" -> Done(st, m, JumpTo(JumpTarget(bytes, pc)), FALSE, "")

Exec(bytes, m, stride, proc) ==
    ExecEffect(bytes, m, stride, proc.pc, proc.stack, Decode(bytes, proc.pc))

\* list.remove(p): the list without its first element equal to p.
Remove(list, p) ==
    LET at == CHOOSE k \in 1..Len(list) :
                  list[k] = p /\ \A j \in 1..(k - 1) : list[j] # p
    IN  SubSeq(list, 1, at - 1) \o SubSeq(list, at + 1, Len(list))

\* A run loop that leaves a halted process in the list.
KeepInList(list, p) == list

\* What HALT does to running_processes.
AfterHalt(list, p) == Remove(list, p)

\* No LOAD or STORE of the process is in progress.
NoAccess == [op |-> "NONE", i |-> 0, x |-> 0, y |-> 0, dx |-> 0, dy |-> 0,
             value |-> 0]

\* The instruction is a LOAD or a STORE whose pops do not raise.
PopsOperands(eff, st) ==
    \/ eff[1] = "LOAD" /\ Len(st) >= 4
    \/ eff[1] = "STORE" /\ Len(st) >= 5

\* The locals of _load_byte / _store_byte after the pops (dy, dx, y, x and,
\* for STORE, value), before the first iteration of the cell loop.
Operands(eff, st) ==
    [op |-> eff[1], i |-> 0, x |-> st[Len(st) - 3], y |-> st[Len(st) - 2],
     dx |-> st[Len(st) - 1], dy |-> st[Len(st)],
     value |-> IF eff[1] = "STORE" THEN st[Len(st) - 4] ELSE 0]

\* The stack after those pops.
AfterPops(eff, st) ==
    SubSeq(st, 1, Len(st) - (IF eff[1] = "STORE" THEN 5 ELSE 4))

\* Iteration a.i of the cell loop on cell idx (-1: the subscript raises).
AccessCell(m, idx, a) ==
    IF idx = -1 THEN [memory |-> m, value |-> a.value, error |-> "IndexError"]
    ELSE IF a.op = "LOAD"
    THEN [memory |-> m, value |-> ReadCell(m, idx, a.i, a.value), error |-> ""]
    ELSE [memory |-> WriteCell(m, idx, a.i, a.value), value |-> a.value,
          error |-> ""]

\* The outcome of a LOAD / STORE whose cell loop ended with c: after the
\* eighth iteration LOAD pushes the value, and the closing pc += 1 follows.
AccessDone(a, c, pc, st) ==
    IF c.error # "" THEN Done(st, c.memory, pc, FALSE, c.error)
    ELSE Done(IF a.op = "LOAD" THEN Append(st, c.value) ELSE st, c.memory,
              pc + 1, FALSE, "")

\* A machine whose memory is its image: each record of the data segment
\* holds what the cell it names holds.
DataWrittenBack(bytes, m) ==
    [k \in 1..Len(bytes) |->
        IF k > bytes[10] + 2 /\ (k - bytes[10]) % 3 = 0
        THEN MemGet(m, BitOr(Shl(bytes[k - 2], 8), bytes[k - 1]))
        ELSE bytes[k]]

\* self.bytecode after an instruction that leaves the memory m: run, and
\* what it calls, assign to self.memory and to the processes only.
ImageAfter(bytes, m) == bytes

\* A scheduler that moves on to the next process after every step, whether
\* the instruction is complete or not.
AlwaysAdvance(i0, done) == i0 + 1

\* The position of run's for loop after a step of the process at position
\* i0: the loop moves on when the instruction is complete.
IteratorAfter(i0, done) == IF done THEN i0 + 1 ELSE i0

\* A run loop that goes on only while more than one process is live.
MoreThanOneLive(list) == Len(list) > 1

\* The condition of run's while loop: the list of live processes is not empty.
WhileRunning(list) == list # <<>>

\* A stack the model still follows.
Followed(st) ==
    /\ Len(st) <= MaxStack
    /\ \A k \in 1..Len(st) : st[k] <= MaxValue /\ st[k] >= -MaxValue

-----------------------------------------------------------------------------
(* The grid walker: a robot that steps cell by cell from a START token.    *)
(* It is the reference the compiled code is compared with.                 *)

OnGrid(grid, x, y) ==
    /\ 0 <= y /\ y < Len(grid)
    /\ 0 <= x /\ x < Len(grid[y + 1])

\* From (x, y) heading d: step, pass NOPs, turn at TURN and START tokens,
\* until a token with an effect on the stack, the memory or the run.
RECURSIVE Advance(_, _, _, _, _)
Advance(grid, x, y, d, fuel) ==
    LET nx == x + d.x
        ny == y + d.y
        here == [x |-> nx, y |-> ny]
    IN  IF fuel = 0 THEN [position |-> here, direction |-> d, state |-> "lost"]
        ELSE IF ~OnGrid(grid, nx, ny)
        THEN [position |-> here, direction |-> d, state |-> "offgrid"]
        ELSE LET ch == grid[ny + 1][nx + 1]
             IN  IF lex_char(ch) = "T_NOP" THEN Advance(grid, nx, ny, d, fuel - 1)
                 ELSE IF lex_char(ch) \in {"T_TURN", "T_START"}
                 THEN Advance(grid, nx, ny, dir_vec(ch), fuel - 1)
                 ELSE [position |-> here, direction |-> d, state |-> "walking"]

\* The effect of the token the walker stands on.
TokenEffect(ch, x, y, width) ==
    CASE lex_char(ch) = "T_DIGIT" -> <<"PUSH", x + y * width>>
      [] lex_char(ch) = "T_STACK_OP" -> <<"STACK", StackOpOf(ch)>>
      [] lex_char(ch) = "T_READ_BYTE" -> <<"LOAD">>
      [] lex_char(ch) = "T_WRITE_BYTE" -> <<"STORE">>
      [] lex_char(ch) = "T_COND" -> <<"COND">>
      [] lex_char(ch) = "T_HALT" -> <<"HALT">>

\* The walker after the effect of the token at `at`, heading d; after_cond
\* says that this effect was a COND that popped a value.
Moved(at, st, mm, d, state, eff) ==
    [walker |-> [position |-> at, direction |-> d, stack |-> st,
                 state |-> state,
                 after_cond |-> eff[1] = "COND" /\ state = "walking"],
     memory |-> mm, effect |-> eff]

\* The walker after a stack or memory operation, r what it did to them.
MovedOp(a, r, mm, eff) ==
    Moved(a.position, r.stack, mm, a.direction,
          IF r.error = "" THEN "walking" ELSE "crashed", eff)

WalkerStore(a, r, eff) == MovedOp(a, r, r.memory, eff)

\* The walker w after it has advanced to a, where the token has effect eff.
WalkerEffect(width, m, w, a, eff) ==
    CASE eff[1] = "PUSH" ->
             IF eff[2] < 0 \/ eff[2] >= m.length
             THEN Moved(a.position, w.stack, m, a.direction, "crashed", eff)
             ELSE Moved(a.position, Append(w.stack, MemGet(m, eff[2])), m,
                        a.direction, "walking", eff)
      [] eff[1] = "STACK" -> MovedOp(a, StackOp(w.stack, eff[2]), m, eff)
      [] eff[1] = "LOAD" -> MovedOp(a, LoadByte(w.stack, m, width), m, eff)
      [] eff[1] = "STORE" -> WalkerStore(a, StoreByte(w.stack, m, width), eff)
      [] eff[1] = "COND" ->
             IF w.stack = <<>>
             THEN Moved(a.position, w.stack, m, a.direction, "crashed", eff)
             ELSE Moved(a.position, Pop(w.stack), m,
                        IF Top(w.stack) = 0 THEN dir_vec(">") ELSE dir_vec("<"),
                        "walking", eff)
      [] eff[1] = "HALT" ->
             Moved(a.position, w.stack, m, a.direction, "halted", eff)

WalkerAt(grid, width, m, w, a) ==
    IF a.state # "walking"
    THEN [walker |-> [w EXCEPT !.position = a.position,
                               !.direction = a.direction, !.state = a.state,
                               !.after_cond = FALSE],
          memory |-> m, effect |-> <<"NONE">>]
    ELSE WalkerEffect(width, m, w, a,
                      TokenEffect(grid[a.position.y + 1][a.position.x + 1],
                                  a.position.x, a.position.y, width))

\* One move of a walker: to the next token with an effect, and that effect.
WalkerMove(grid, width, m, w) ==
    IF w.state # "walking"
    THEN [walker |-> w, memory |-> m, effect |-> <<"NONE">>]
    ELSE WalkerAt(grid, width, m, w,
                  Advance(grid, w.position.x, w.position.y, w.direction,
                          4 * width * Len(grid) + 1))

-----------------------------------------------------------------------------
(* The source texts the model compiles and runs.                           *)

\* The characters of the exhaustively enumerated rows.
Alphabet == {" ", ";", "@", "E", "W", "<", ">", "_", "0", "1"}

\* Every one-row source of up to MaxLen characters of Alphabet.
SmallSources ==
    {<<r>> : r \in UNION {[1..n -> Alphabet] : n \in 1..MaxLen}}

\* "E a b o @": two digits and a stack operator.
ArithSources ==
    {<<<<"E", a, b, o, "@">>>> : a \in {"0", "3", "7"}, b \in {"0", "2"},
                               o \in StackChars}

\* "E a ~ b o @": the left operand negative.
NegArithSources ==
    {<<<<"E", "6", "~", b, o, "@">>>> : b \in {"2"}, o \in {"/", "%", "&", "|", "-"}}

\* A row of `n` cells: `first`, then `fill` cells, then `final`.
Row(first, fill, final, n) ==
    [x \in 1..n |-> IF x = 1 THEN first ELSE IF x = n THEN final ELSE fill]

Programs ==
    { \* a turn, then a halt
      << <<"E", " ", "v">>,
         <<" ", " ", " ">>,
         <<" ", " ", "@">> >>,
      \* a conditional whose two branches halt, on zero and on non-zero
      << <<" ", "S", " ">>,
         <<" ", "0", " ">>,
         <<"@", "_", "@">> >>,
      << <<"1", "S", "2">>,
         <<" ", "1", " ">>,
         <<"@", "_", "@">> >>,
      \* a conditional in a loop: count down from the value of a cell
      << <<"E", "1", "v", " ">>,
         <<"@", "_", "<", " ">> >>,
      \* paths that leave the grid through its left and its top edge
      << <<" ", " ", "7">>,
         <<"W", "@", "3">> >>,
      << <<"N">>, <<"@">>, <<"5">> >>,
      << <<"N">>, <<"@">> >>,
      \* two robots, one of which rewrites a cell the other pushes
      << <<"E", "@", " ", " ", " ", " ", " ", " ">>,
         <<"E", " ", " ", "1", "@", " ", " ", " ">> >>,
      << <<"E", "1", " ", "@", "1", "W">> >>,
      \* read a byte from eight bit cells, write it back
      << <<"1", "0", "1", "0", "1", "0", "1", "0", " ", " ", " ", " ">>,
         <<"E", "0", "0", "1", "0", "?", "0", "0", "1", "0", "#", "@">> >>,
      \* the same beside a robot that pushes and pops while the bytes are
      \* read and written
      << <<"1", "0", "1", "0", "1", "0", "1", "0", " ", " ", " ", " ">>,
         <<"E", "0", "0", "1", "0", "?", "0", "0", "1", "0", "#", "@">>,
         <<"E", "1", "!", "1", "!", "1", "!", "1", "!", "1", "!", "@">> >>,
      \* a row whose comment hides nothing, above a longer row
      << <<"@", ";">>,
         <<"@", "W">> >>,
      << <<"E", "@", ";">>,
         <<"1", "@", "W">> >>,
      \* a grid of 257 cells with a digit in the last one
      [y \in 1..257 |-> <<IF y = 1 THEN "S" ELSE IF y = 2 THEN "@"
                          ELSE IF y = 257 THEN "3" ELSE " ">>],
      \* a code segment of 247 bytes
      << Row("E", "1", "@", 125) >>,
      \* a conditional whose west block starts with a PUSH of address 335
      \* (low byte 79), on zero and on non-zero
      << [x \in 1..128 |-> IF x = 1 THEN ">" ELSE IF x = 2 THEN "@"
                           ELSE IF x = 81 THEN "S" ELSE " "],
         [x \in 1..128 |-> IF x = 81 THEN "0" ELSE " "],
         [x \in 1..128 |-> IF x \in {79, 82} THEN "@" ELSE IF x = 80 THEN "1"
                           ELSE IF x = 81 THEN "_" ELSE " "] >>,
      << [x \in 1..128 |-> IF x = 1 THEN ">" ELSE IF x = 2 THEN "@"
                           ELSE IF x = 81 THEN "S" ELSE " "],
         [x \in 1..128 |-> IF x = 81 THEN "1" ELSE " "],
         [x \in 1..128 |-> IF x \in {79, 82} THEN "@" ELSE IF x = 80 THEN "1"
                           ELSE IF x = 81 THEN "_" ELSE " "] >>,
      \* write a byte over the digits it was pushed from
      << <<"E", "1", "0", "0", "1", "0", "#", "@">> >>,
      \* a block that starts with a PUSH of address 79, spliced into its
      \* caller, beside a jump to label 0
      << [x \in 1..41 |-> IF x = 1 THEN ">" ELSE IF x = 2 THEN "@"
                          ELSE IF x = 40 THEN "S" ELSE " "],
         [x \in 1..41 |-> IF x = 1 THEN "N" ELSE IF x = 38 THEN "@"
                          ELSE IF x = 39 THEN "1" ELSE IF x = 40 THEN "<"
                          ELSE " "] >>,
      \* read a byte, duplicate it; write a byte, pass a space
      << <<"1", "0", "1", "0", "1", "0", "1", "0">>,
         <<"E", "0", "0", "1", "0", "?", ":", "@">> >>,
      << <<"1", "1", "1", "1", "1", "1", "1", "1", "1">>,
         <<"E", "5", "0", "0", "1", "0", "#", " ", "@">> >>,
      \* a row of 255 turns
      << [x \in 1..255 |-> ">"] >>,
      \* a chain of three blocks, each the only caller of the next
      << <<"E", " ", "v">>,
         <<"@", "1", "<">> >>,
      \* a block that starts with a PUSH of address 79, spliced into its caller
      << [x \in 1..41 |-> IF x = 1 THEN ">" ELSE IF x = 2 THEN "@"
                          ELSE IF x = 40 THEN "S" ELSE " "],
         [x \in 1..41 |-> IF x = 38 THEN "@" ELSE IF x = 39 THEN "1"
                          ELSE IF x = 40 THEN "<" ELSE " "] >> }

Sources == SmallSources \cup ArithSources \cup NegArithSources \cup Programs

-----------------------------------------------------------------------------
(* The state machine.                                                      *)

NoMemory == [length |-> 0, cells |-> NoCells]

\* A Room before init_from_string.
NoRoom == [phase |-> "new", err |-> "", grid |-> <<>>, robots |-> <<>>,
          halted |-> <<>>, it |-> 0]
NoLast == [proc |-> -1, pc |-> -1, effect |-> <<"NONE">>, error |-> "",
           expected |-> <<"NONE">>, after_cond |-> FALSE, agreed |-> TRUE,
           args |-> NoAccess]

Init ==
    /\ src \in Sources
    /\ phase = "start"
    /\ err = ""
    /\ dim = [x |-> 0, y |-> 0]
    /\ input_grid = <<>>
    /\ mem_addrs = <<>>
    /\ jump_labels = <<>>
    /\ entry_points = <<>>
    /\ paths = <<>>
    /\ header = <<>>
    /\ code = <<>>
    /\ label_offsets = NoCells
    /\ image = <<>>
    /\ precode = <<>>
    /\ bytecode = <<>>
    /\ memory = NoMemory
    /\ mem_stride = 0
    /\ processes = <<>>
    /\ running = <<>>
    /\ it = 0
    /\ pass_start = <<>>
    /\ stepped = <<>>
    /\ last = NoLast
    /\ access = <<>>
    /\ walkers = <<>>
    /\ wmemory = NoMemory
    /\ agree = TRUE
    /\ room = NoRoom

compilerVars == <<dim, input_grid, mem_addrs, jump_labels, entry_points,
                  paths, header, code, label_offsets, image, precode>>
vmVars == <<bytecode, memory, mem_stride, processes, running, it, pass_start, stepped,
            last, access, walkers, wmemory, agree>>

\* Compiler.load_string.
LoadString ==
    /\ phase = "start"
    /\ dim' = [x |-> Len(src[1]), y |-> Len(src)]
    /\ IF LoadStringFails(src)
       THEN /\ phase' = "compile_error"
            /\ err' = "ValueError"
            /\ UNCHANGED <<input_grid, mem_addrs>>
       ELSE /\ phase' = "loaded"
            /\ err' = ""
            /\ input_grid' = [y \in 1..Len(src) |-> LexRow(src[y])]
            /\ mem_addrs' = init_mem(input_grid', Len(src[1]))
    /\ UNCHANGED <<room, src, jump_labels, entry_points, paths, header, code,
                   label_offsets, image, precode>>
    /\ UNCHANGED vmVars

\* Compiler.compile: find_path_heads.
FindPathHeads ==
    /\ phase = "loaded"
    /\ \E r \in {find_path_heads(input_grid)} :
           /\ jump_labels' = r.jump_labels
           /\ entry_points' = r.entry_points
           /\ err' = r.error
           /\ phase' = IF r.error = "" THEN "heads" ELSE "compile_error"
    /\ UNCHANGED <<room, src, dim, input_grid, mem_addrs, paths, header, code,
                   label_offsets, image, precode>>
    /\ UNCHANGED vmVars

\* Compiler.compile: parse_paths.
ParsePaths ==
    /\ phase = "heads"
    /\ \E r \in {parse_paths(input_grid, dim.x, jump_labels)} :
           /\ jump_labels' = r.jump_labels
           /\ paths' = r.paths
           /\ err' = r.error
           /\ phase' = IF r.error = "" THEN "parsed" ELSE "compile_error"
    /\ UNCHANGED <<room, src, dim, input_grid, mem_addrs, entry_points, header, code,
                   label_offsets, image, precode>>
    /\ UNCHANGED vmVars

\* Compiler.compile: build_header and the coalescing loop.
Coalesce ==
    /\ phase = "parsed"
    /\ header' = build_header(entry_points)
    /\ \E r \in {CoalesceFrom(paths, jump_labels, 0)} :
           /\ paths' = r.paths
           /\ err' = r.error
           /\ phase' = IF r.error = "" THEN "coalesced" ELSE "compile_error"
    /\ UNCHANGED <<room, src, dim, input_grid, mem_addrs, jump_labels, entry_points,
                   code, label_offsets, image, precode>>
    /\ UNCHANGED vmVars

\* Compiler.compile: the layout loop.
Layout ==
    /\ phase = "coalesced"
    /\ \E r \in {LayoutLoop(paths, entry_points, {}, NoCells, <<>>, Len(header))} :
           /\ code' = r.code
           /\ precode' = r.code
           /\ label_offsets' = r.label_offsets
           /\ err' = r.error
           /\ phase' = IF r.error = "" THEN "laid_out" ELSE "compile_error"
    /\ UNCHANGED <<room, src, dim, input_grid, mem_addrs, jump_labels, entry_points,
                   paths, header, image>>
    /\ UNCHANGED vmVars

\* The exception the rest of compile raises, "" when it returns the image:
\* a header field or an entry offset that is no byte, or what the linking
\* of the jumps, whose result is `linked`, or the listing of the code raised.
LinkError(width, entries, offs, linked) ==
    IF width > 255 \/ \E k \in 1..Len(entries) : offs[entries[k]] > 255
    THEN "ValueError"
    ELSE IF linked.error # "" THEN linked.error
    ELSE IF DisFails(linked.code, 0) THEN "ValueError"
    ELSE ""

\* The header with its memory length, stride and data offset written.
HeaderFields(hdr, width, height, data_offset) ==
    [hdr EXCEPT ![7] = MemLengthBytes(width * height)[1],
                ![8] = MemLengthBytes(width * height)[2],
                ![9] = width,
                ![10] = DataOffsetByte(data_offset)]

\* Compiler.compile: the header fields, the two resolve passes, the image.
Link ==
    /\ phase = "laid_out"
    /\ \E linked \in {resolve_jump_addresses(code, label_offsets, 0)} :
         \E e \in {LinkError(dim.x, entry_points, label_offsets, linked)} :
           /\ err' = e
           /\ phase' = IF e = "" THEN "compiled" ELSE "compile_error"
           /\ IF e = ""
              THEN /\ header' = resolve_entry_addresses(
                                    HeaderFields(header, dim.x, dim.y,
                                                 Len(header) + Len(code)),
                                    entry_points, label_offsets)
                   /\ code' = linked.code
                   /\ image' = header' \o code' \o build_footer(mem_addrs)
              ELSE UNCHANGED <<header, code, image>>
    /\ UNCHANGED <<room, src, dim, input_grid, mem_addrs, jump_labels, entry_points,
                   paths, label_offsets, precode>>
    /\ UNCHANGED vmVars

\* The walker that starts where the process of entry label `label` starts.
NewWalker(label) ==
    [position |-> label.location, direction |-> label.direction,
     stack |-> <<>>, state |-> "walking", after_cond |-> FALSE]

\* The memory the walkers start from: the digits of the grid, every other
\* cell 0, of the length the machine gave its buffer.
GridMemory(addrs, length) ==
    [length |-> length,
     cells |-> [a \in {addrs[k][1] : k \in {j \in 1..Len(addrs) :
                                                addrs[j][2] # 0}} |->
                   addrs[CHOOSE j \in 1..Len(addrs) : addrs[j][1] = a][2]]]

\* VirtualMachine.load, of the image compile returned or of a damaged copy
\* of it.  What it had assigned when it raised stays assigned.
Load ==
    /\ phase = "compiled"
    /\ \E bytes \in Handed(image) :
       \E r \in {IF HeaderAccepted(bytes)
                 THEN InitMem(bytes, LoadedMemLength(bytes[7], bytes[8]),
                              bytes[10])
                 ELSE [memory |-> NoMemory, error |-> ""]} :
       \E e \in {LoadError(bytes, r.error)} :
           /\ bytecode' = bytes
           /\ err' = e
           /\ phase' = IF e = "" THEN "vm_loaded" ELSE "load_error"
           /\ memory' = r.memory
           /\ mem_stride' = IF HeaderAccepted(bytes) THEN bytes[9] ELSE 0
           /\ processes' = IF HeaderAccepted(bytes) /\ r.error = ""
                                /\ Len(bytes) >= 11
                            THEN SpawnProcesses(bytes) ELSE <<>>
           /\ walkers' = [k \in 1..Len(entry_points) |->
                            NewWalker(jump_labels[entry_points[k] + 1])]
           /\ wmemory' = GridMemory(mem_addrs, r.memory.length)
           /\ access' = [k \in 1..Len(processes') |-> NoAccess]
    /\ UNCHANGED <<room, src, running, it, pass_start, stepped, last, agree>>
    /\ UNCHANGED compilerVars

\* VirtualMachine.run: the copy of the process list it starts from.  It
\* can be called after a load that raised, too.
StartRun ==
    /\ phase \in {"vm_loaded", "load_error"}
    /\ phase' = "running"
    /\ running' = [k \in 1..Len(processes) |-> k - 1]
    /\ pass_start' = running'
    /\ it' = 0
    /\ stepped' = <<>>
    /\ UNCHANGED <<room, src, err, bytecode, memory, mem_stride, processes, last,
                   access, walkers, wmemory, agree>>
    /\ UNCHANGED compilerVars

\* The end of an instruction of process p, whose effect was eff and whose
\* outcome is r; wm is the move of the walker of p, a the locals of the
\* LOAD / STORE it was (NoAccess when it was none).
Finish(p, eff, r, wm, a) ==
    /\ processes' = [processes EXCEPT ![p + 1] = r.proc]
    /\ memory' = r.memory
    /\ bytecode' = ImageAfter(bytecode, r.memory)
    /\ last' = [proc |-> p, pc |-> processes[p + 1].pc, effect |-> eff,
                error |-> r.error, expected |-> wm.effect,
                after_cond |-> eff[1] # "JMP" /\ walkers[p + 1].after_cond,
                agreed |-> agree, args |-> a]
    /\ stepped' = Append(stepped, p)
    /\ it' = IteratorAfter(it, TRUE)
    /\ running' = IF r.proc.stopped THEN AfterHalt(running, p) ELSE running
    /\ walkers' = [walkers EXCEPT ![p + 1] = wm.walker]
    /\ wmemory' = wm.memory
    /\ agree' = (agree /\ wm.effect = eff)
    /\ IF r.error # ""
       THEN phase' = "vm_error" /\ err' = r.error
       ELSE IF ~Followed(r.proc.stack)
       THEN phase' = "cut_off" /\ err' = ""
       ELSE phase' = "running" /\ err' = ""

\* One iteration of run's for loop: the next process of the list executes
\* one instruction.  The walker of the process makes its next move with it,
\* except at a JMP, which is no effect of a token.  (A LOAD or STORE whose
\* pops succeed is PopOperands and CellAccess.)
Step ==
    /\ phase = "running"
    /\ it < Len(running)
    /\ \E p \in {running[it + 1]} :
       \E eff \in {Decode(bytecode, processes[p + 1].pc)} :
       \E r \in {Exec(bytecode, memory, mem_stride, processes[p + 1])} :
       \E wm \in {IF eff[1] = "JMP"
                  THEN [walker |-> walkers[p + 1], memory |-> wmemory,
                        effect |-> eff]
                  ELSE WalkerMove(input_grid, dim.x, wmemory, walkers[p + 1])} :
           /\ access[p + 1] = NoAccess
           /\ ~PopsOperands(eff, processes[p + 1].stack)
           /\ Finish(p, eff, r, wm, NoAccess)
    /\ UNCHANGED <<room, src, mem_stride, pass_start, access>>
    /\ UNCHANGED compilerVars

\* The next process of the list is at a LOAD or a STORE: _load_byte /
\* _store_byte pops its operands.
PopOperands ==
    /\ phase = "running"
    /\ it < Len(running)
    /\ \E p \in {running[it + 1]} :
       \E eff \in {Decode(bytecode, processes[p + 1].pc)} :
           /\ access[p + 1] = NoAccess
           /\ PopsOperands(eff, processes[p + 1].stack)
           /\ processes' = [processes EXCEPT
                               ![p + 1].stack = AfterPops(eff, @)]
           /\ access' = [access EXCEPT
                            ![p + 1] = Operands(eff, processes[p + 1].stack)]
           /\ it' = IteratorAfter(it, FALSE)
    /\ UNCHANGED <<room, src, phase, err, bytecode, memory, mem_stride, running,
                   pass_start, stepped, last, walkers, wmemory, agree>>
    /\ UNCHANGED compilerVars

\* One iteration of the cell loop of _load_byte / _store_byte.  The eighth
\* iteration, or one whose subscript raises, ends the instruction.
CellAccess ==
    /\ phase = "running"
    /\ it < Len(running)
    /\ \E p \in {running[it + 1]} :
       \E a \in {access[p + 1]} :
           /\ a.op # "NONE"
           /\ \E c \in {AccessCell(memory,
                                    PyIndex(CellOffset(a.x, a.y, a.dx, a.dy, a.i,
                                                       mem_stride),
                                            memory.length), a)} :
                  IF c.error = "" /\ a.i < 7
                  THEN /\ access' = [access EXCEPT
                                        ![p + 1] = [a EXCEPT !.i = a.i + 1,
                                                             !.value = c.value]]
                       /\ memory' = c.memory
                       /\ bytecode' = ImageAfter(bytecode, c.memory)
                       /\ it' = IteratorAfter(it, FALSE)
                       /\ UNCHANGED <<phase, err, processes, running, stepped,
                                      last, walkers, wmemory, agree>>
                  ELSE /\ access' = [access EXCEPT ![p + 1] = NoAccess]
                       /\ Finish(p, <<a.op>>,
                                 AccessDone(a, c, processes[p + 1].pc,
                                            processes[p + 1].stack),
                                 WalkerMove(input_grid, dim.x, wmemory,
                                            walkers[p + 1]), a)
    /\ UNCHANGED <<room, src, mem_stride, pass_start>>
    /\ UNCHANGED compilerVars

\* The for loop has reached the end of the list, which is not empty: the
\* while loop starts the next pass.
EndPass ==
    /\ phase = "running"
    /\ it >= Len(running)
    /\ WhileRunning(running)
    /\ it' = 0
    /\ pass_start' = running
    /\ stepped' = <<>>
    /\ UNCHANGED <<room, src, phase, err, bytecode, memory, mem_stride, processes,
                   running, last, access, walkers, wmemory, agree>>
    /\ UNCHANGED compilerVars

\* The list is empty: run returns.
RunReturn ==
    /\ phase = "running"
    /\ it >= Len(running)
    /\ ~WhileRunning(running)
    /\ phase' = "finished"
    /\ UNCHANGED <<room, src, err, bytecode, memory, mem_stride, processes, running,
                   it, pass_start, stepped, last, access, walkers, wmemory,
                   agree>>
    /\ UNCHANGED compilerVars

Next ==
    \/ LoadString
    \/ FindPathHeads
    \/ ParsePaths
    \/ Coalesce
    \/ Layout
    \/ Link
    \/ Load
    \/ StartRun
    \/ Step
    \/ PopOperands
    \/ CellAccess
    \/ EndPass
    \/ RunReturn

Spec == Init /\ [][Next]_vars

\* run is one thread of a deterministic interpreter: as long as its loops
\* have a next step to take, it is taken.
FairSpec ==
    Spec /\ WF_vars(Step \/ PopOperands \/ CellAccess \/ EndPass \/ RunReturn)

-----------------------------------------------------------------------------
(* The tree-walking interpreter (robots-interpreter.py): a Room whose      *)
(* robots step over the grid cell by cell.  A token is kept as its value,  *)
(* a Vector as a record of x and y.                                        *)

\* The characters the interpreter's lex_char takes for stack functions.
StackFuncChars == {"!", ":", "$", "-", "+", "*", "/", "%"}

\* lex_char of the interpreter: the type of the token of ch, "ValueError"
\* when it raises.
RoomLexChar(ch) ==
    IF ch = " " THEN "T_NOP"
    ELSE IF ch = ";" THEN "T_COMMENT"
    ELSE IF ch = "@" THEN "T_HALT"
    ELSE IF ch \in {"<", "^", ">", "v"} THEN "T_TURN"
    ELSE IF ch \in {"W", "N", "E", "S"} THEN "T_START"
    ELSE IF ch \in StackFuncChars THEN "T_STACK_FUNC"
    ELSE IF ch = "_" THEN "T_COND"
    ELSE IF ch \in Digits THEN "T_DIGIT"
    ELSE IF ch = "?" THEN "T_READ_BYTE"
    ELSE IF ch = "#" THEN "T_WRITE_BYTE"
    ELSE "ValueError"

\* A robot as Robot.__init__ leaves it.
NewRobot(id, position, direction) ==
    [id |-> id, position |-> position, direction |-> direction,
     stack |-> <<>>, frames |-> <<>>, writing_bit |-> -1, reading_bit |-> -1]

\* Room.init_from_string and _place_robots: each row up to its first
\* comment, one robot for each START in row-major order.  lex_char raises
\* on the first character it does not know, if that comes before the comment.
init_from_string(rows) ==
    LET Kept(row) ==
            LET at == {k \in 1..Len(row) : row[k] = ";"}
            IN  SubSeq(row, 1, IF at = {} THEN Len(row)
                               ELSE (CHOOSE k \in at : \A j \in at : k <= j) - 1)
        grid == [y \in 1..Len(rows) |-> Kept(rows[y])]
        wide == 1 + CHOOSE w \in {Len(rows[y]) : y \in 1..Len(rows)} :
                        \A y \in 1..Len(rows) : Len(rows[y]) <= w
        starts == SortedSeq(UNION {{(y - 1) * wide + (x - 1) :
                                       x \in {c \in 1..Len(grid[y]) :
                                                 RoomLexChar(grid[y][c]) = "T_START"}} :
                                   y \in 1..Len(grid)})
    IN  IF \E y \in 1..Len(grid) : \E x \in 1..Len(grid[y]) :
               RoomLexChar(grid[y][x]) = "ValueError"
        THEN [NoRoom EXCEPT !.phase = "error", !.err = "ValueError"]
        ELSE [phase |-> "placed", err |-> "", grid |-> grid,
              robots |-> [k \in 1..Len(starts) |->
                             NewRobot(k - 1,
                                      [x |-> starts[k] % wide,
                                       y |-> starts[k] \div wide],
                                      dir_vec(grid[(starts[k] \div wide) + 1]
                                                  [(starts[k] % wide) + 1]))],
              halted |-> <<>>, it |-> 0]

\* Room._get_token: self.grid[pos.y][pos.x], with the cell it names; Python
\* counts a negative subscript from the end and raises past either end.
get_token(grid, pos) ==
    LET y == PyIndex(pos.y, Len(grid))
        x == IF y = -1 THEN -1 ELSE PyIndex(pos.x, Len(grid[y + 1]))
    IN  IF x = -1 THEN [error |-> "IndexError", value |-> "", x |-> 0, y |-> 0]
        ELSE [error |-> "", value |-> grid[y + 1][x + 1], x |-> x, y |-> y]

\* Stack.op and Stack.math of the interpreter.
RoomStackOp(st, op) ==
    LET n == Len(st)
        a == st[n]
        b == st[n - 1]
        rest == SubSeq(st, 1, n - 2)
        Raise(e) == [stack |-> st, error |-> e]
        Ok(s) == [stack |-> s, error |-> ""]
    IN  IF op = "!" THEN IF n < 1 THEN Raise("IndexError") ELSE Ok(Pop(st))
        ELSE IF op = ":"
        THEN IF n < 1 THEN Raise("IndexError") ELSE Ok(Append(st, a))
        ELSE IF n < 2 THEN Raise("IndexError")
        ELSE IF op = "$" THEN Ok(rest \o <<a, b>>)
        ELSE IF op = "-" THEN Ok(Append(rest, b - a))
        ELSE IF op = "+" THEN Ok(Append(rest, b + a))
        ELSE IF op = "*" THEN Ok(Append(rest, b * a))
        ELSE IF a = 0 THEN Raise("ZeroDivisionError")
        ELSE IF op = "/" THEN Ok(Append(rest, PyFloorDiv(b, a)))
        ELSE Ok(Append(rest, PyMod(b, a)))

\* Vector.add on the position of a robot.
AddDirection(r) ==
    [r EXCEPT !.position = [x |-> r.position.x + r.direction.x,
                            y |-> r.position.y + r.direction.y]]

\* Robot.jump: the frame is pushed, then dy, dx, y, x are popped.
jump(r) ==
    LET n == Len(r.stack)
    IN  IF n < 4 THEN [robot |-> r, error |-> "IndexError"]
        ELSE [robot |->
                  [r EXCEPT !.frames = Append(@, [position |-> r.position,
                                                  direction |-> r.direction]),
                            !.stack = SubSeq(@, 1, n - 4),
                            !.position = [x |-> r.stack[n - 3],
                                          y |-> r.stack[n - 2]],
                            !.direction = [x |-> r.stack[n - 1],
                                           y |-> r.stack[n]]],
              error |-> ""]

\* Robot.unjump: back to the frame, and one step on from there.
unjump(r) ==
    LET prev_frame == r.frames[Len(r.frames)]
    IN  AddDirection([r EXCEPT !.frames = SubSeq(@, 1, Len(@) - 1),
                               !.direction = prev_frame.direction,
                               !.position = prev_frame.position])

\* Robot.read_next_bit on the token whose value is ch: int(ch) raises
\* ValueError when ch is no digit.
read_next_bit(r, ch) ==
    IF ch \notin Digits \/ r.stack = <<>>
    THEN [robot |-> r,
          error |-> IF ch \notin Digits THEN "ValueError" ELSE "IndexError"]
    ELSE LET read == [r EXCEPT
                         !.stack = Append(Pop(@),
                                          BitOr(Top(@), Shl(DigitValue(ch),
                                                            r.reading_bit))),
                         !.reading_bit = @ - 1]
         IN  [robot |-> IF read.reading_bit = -1 THEN unjump(read) ELSE read,
              error |-> ""]

\* Robot.write_next_bit: the bit of the value on top of the stack that is
\* written to the cell the robot stands on, and the robot afterwards.
write_next_bit(r) ==
    IF r.stack = <<>> THEN [robot |-> r, bit |-> 0, error |-> "IndexError"]
    ELSE LET written == [r EXCEPT !.writing_bit = @ - 1]
         IN  [robot |-> IF written.writing_bit = -1
                        THEN unjump([written EXCEPT !.stack = Pop(@)])
                        ELSE written,
              bit |-> Shr(Top(r.stack), r.writing_bit) % 2,
              error |-> ""]

\* Robot.next: the robot and the grid afterwards, the exception raised and
\* whether the robot halted.  READ_BYTE and WRITE_BYTE return before the
\* closing position.add(direction); every other path takes it.
RobotNext(grid, r) ==
    LET token == get_token(grid, r.position)
        type == RoomLexChar(token.value)
        Out(rr, g, e, h) == [robot |-> rr, grid |-> g, error |-> e, halted |-> h]
        Raise(e) == Out(r, grid, e, FALSE)
        Go(rr) == Out(AddDirection(rr), grid, "", FALSE)
        Of(o) == IF o.error # "" THEN Raise(o.error) ELSE Go(o.robot)
        Jumped(rr, push) ==
            LET o == jump(rr)
            IN  IF o.error # "" THEN Raise(o.error)
                ELSE Out([o.robot EXCEPT !.stack = @ \o push], grid, "", FALSE)
    IN  IF token.error # "" THEN Raise(token.error)
        ELSE IF r.writing_bit > -1
        THEN LET o == write_next_bit(r)
             IN  IF o.error # "" THEN Raise(o.error)
                 ELSE Out(AddDirection(o.robot),
                          [grid EXCEPT ![token.y + 1][token.x + 1] =
                              IF o.bit = 1 THEN "1" ELSE "0"],
                          "", FALSE)
        ELSE IF r.reading_bit > -1 THEN Of(read_next_bit(r, token.value))
        ELSE IF type = "T_NOP" THEN Go(r)
        ELSE IF type = "T_HALT" THEN Out(AddDirection(r), grid, "", TRUE)
        ELSE IF type \in {"T_TURN", "T_START"}
        THEN Go([r EXCEPT !.direction = dir_vec(token.value)])
        ELSE IF type = "T_STACK_FUNC"
        THEN LET o == RoomStackOp(r.stack, token.value)
             IN  IF o.error # "" THEN Raise(o.error)
                 ELSE Go([r EXCEPT !.stack = o.stack])
        ELSE IF type = "T_COND"
        THEN IF r.stack = <<>> THEN Raise("IndexError")
             ELSE Go([r EXCEPT !.stack = Pop(@),
                               !.direction = IF Top(r.stack) = 0
                                             THEN dir_vec(">") ELSE dir_vec("<")])
        ELSE IF type = "T_READ_BYTE"
        THEN Jumped([r EXCEPT !.reading_bit = 7], <<0>>)
        ELSE IF type = "T_WRITE_BYTE"
        THEN Jumped([r EXCEPT !.writing_bit = 7], <<>>)
        ELSE Go([r EXCEPT !.stack = Append(@, DigitValue(token.value))])

\* compile / load / run of the source is over.
RunOver == phase \in {"compile_error", "finished", "vm_error", "cut_off"}

\* Room.init_from_string on the source, once the compiler and the machine
\* are through with it.
InitFromString ==
    /\ RunOver
    /\ room.phase = "new"
    /\ room' = init_from_string(src)
    /\ UNCHANGED <<src, phase, err>>
    /\ UNCHANGED compilerVars
    /\ UNCHANGED vmVars

\* One iteration of the for loop of Room.start: robot.next() of the next
\* robot of the list.  A robot that halts is removed from the list by
\* _receive_result while the loop stands on it.
RobotStep ==
    /\ room.phase = "placed"
    /\ room.it < Len(room.robots)
    /\ \E o \in {RobotNext(room.grid, room.robots[room.it + 1])} :
           room' = IF o.error # ""
                   THEN [room EXCEPT !.phase = "error", !.err = o.error]
                   ELSE [room EXCEPT
                            !.phase = IF Followed(o.robot.stack) THEN "placed"
                                      ELSE "cut_off",
                            !.grid = o.grid,
                            !.robots =
                                IF o.halted
                                THEN SubSeq(@, 1, room.it)
                                         \o SubSeq(@, room.it + 2, Len(@))
                                ELSE [@ EXCEPT ![room.it + 1] = o.robot],
                            !.halted = IF o.halted THEN Append(@, o.robot) ELSE @,
                            !.it = @ + 1]
    /\ UNCHANGED <<src, phase, err>>
    /\ UNCHANGED compilerVars
    /\ UNCHANGED vmVars

\* The for loop has reached the end of the list of robots, which is not
\* empty: the while loop of Room.start starts the next pass.
RoomEndPass ==
    /\ room.phase = "placed"
    /\ room.it >= Len(room.robots)
    /\ room.robots # <<>>
    /\ room' = [room EXCEPT !.it = 0]
    /\ UNCHANGED <<src, phase, err>>
    /\ UNCHANGED compilerVars
    /\ UNCHANGED vmVars

\* No robot is left: Room.start returns.
RoomReturn ==
    /\ room.phase = "placed"
    /\ room.it >= Len(room.robots)
    /\ room.robots = <<>>
    /\ room' = [room EXCEPT !.phase = "finished"]
    /\ UNCHANGED <<src, phase, err>>
    /\ UNCHANGED compilerVars
    /\ UNCHANGED vmVars

\* The source is compiled, loaded and run, and then interpreted.
RoomNext ==
    \/ LoadString
    \/ FindPathHeads
    \/ ParsePaths
    \/ Coalesce
    \/ Layout
    \/ Link
    \/ Load
    \/ StartRun
    \/ Step
    \/ PopOperands
    \/ CellAccess
    \/ EndPass
    \/ RunReturn
    \/ InitFromString
    \/ RobotStep
    \/ RoomEndPass
    \/ RoomReturn

RoomSpec == Init /\ [][RoomNext]_vars

-----------------------------------------------------------------------------
(* The instructions one by one: a machine that has loaded an image of one  *)
(* instruction and a HALT, its process with a stack and its memory with    *)
(* cells that earlier instructions could have left.                        *)

\* A memory of `length` cells, cell k holding f[(k % Len(f)) + 1].
PatternMemory(length, f) ==
    [length |-> length,
     cells |-> [k \in {j \in 0..(length - 1) : f[(j % Len(f)) + 1] # 0} |->
                   f[(k % Len(f)) + 1]]]

\* The image of a grid `width` cells wide whose code is one instruction,
\* the bytes `instr`, and a HALT, with no data segment.
OneInstruction(instr, width) ==
    HeaderFields(build_header(<<12>>), width, 64 \div width,
                 12 + Len(instr) + 1)
        \o instr \o <<make_byte(OP_HALT, 0)>>

\* What is run: an instruction, the stack and the memory it is run on, and
\* the width of the grid.  A LOAD finds x, y, dx, dy on the stack, a STORE
\* every byte value and x, y, dx, dy, a stack operation b and, on top, a;
\* each above one other element, a jump the value JZ pops, 0 or not.  The
\* jumps are of both forms, to the header, to the jump itself, to the HALT
\* and to the end of the image.  The cells hold bits, or digits.
OpCases ==
    LET Coords == {<<x, y, dx, dy>> : x \in {0, 7}, y \in {0, 7},
                                      dx \in {-1, 0, 1}, dy \in {-1, 0, 1}}
        LoadStacks == {<<5>> \o c : c \in Coords}
        StoreStacks == {<<5, v>> \o c : v \in 0..255, c \in Coords}
        MathStacks == {<<5, b, a>> : b \in -9..9, a \in -9..9}
        BitMemories ==
            {PatternMemory(64, f) : f \in {<<1>>, <<1, 0, 1, 0, 1, 0, 1, 0>>,
                                            <<0, 0, 1, 1, 0, 1, 0, 1, 1>>,
                                            <<3, 0, 9, 1, 2>>}}
        JumpStacks == {<<5, v>> : v \in {-1, 0, 1}} \cup {<<0, 0>>}
        Jumps == {<<make_byte(op, t)>> : op \in {OP_JZ, OP_JMP}, t \in 0..14}
                 \cup {<<make_byte(op, 15), t>> : op \in {OP_JZ, OP_JMP},
                                                  t \in {0, 5, 12, 14, 15}}
        Pushes == {<<make_byte(OP_PUSH, 0), a>> : a \in {0, 2, 63}}
    IN  ({<<make_byte(OP_LOAD, 0)>>} \X LoadStacks \X BitMemories \X {1, 8})
        \cup ({<<make_byte(OP_STORE, 0)>>} \X StoreStacks
                  \X {PatternMemory(64, <<1>>)} \X {8})
        \cup ({<<make_byte(OP_STACK, k)>> : k \in 0..10} \X MathStacks
                  \X {PatternMemory(64, <<1>>)} \X {8})
        \cup (Jumps \X JumpStacks \X {PatternMemory(64, <<1>>)} \X {8})
        \cup (Pushes \X {<<5>>} \X {PatternMemory(64, <<3, 0, 9, 1, 2>>)}
                  \X {8})

\* The machine as load leaves it, but for the stack and the cells.
OpInit ==
    \E c \in OpCases :
        /\ src = <<>>
        /\ phase = "running"
        /\ err = ""
        /\ dim = [x |-> 0, y |-> 0]
        /\ input_grid = <<>>
        /\ mem_addrs = <<>>
        /\ jump_labels = <<>>
        /\ entry_points = <<>>
        /\ paths = <<>>
        /\ header = <<>>
        /\ code = <<>>
        /\ label_offsets = NoCells
        /\ image = <<>>
        /\ precode = <<>>
        /\ bytecode = OneInstruction(c[1], c[4])
        /\ memory = c[3]
        /\ mem_stride = c[4]
        /\ processes = <<[pc |-> 12, stack |-> c[2], stopped |-> FALSE]>>
        /\ running = <<0>>
        /\ it = 0
        /\ pass_start = <<0>>
        /\ stepped = <<>>
        /\ last = NoLast
        /\ access = <<NoAccess>>
        /\ walkers = <<[NewWalker(Label(0, 0, dir_vec("E"), 1))
                           EXCEPT !.state = "offgrid"]>>
        /\ wmemory = c[3]
        /\ agree = TRUE
        /\ room = NoRoom

OpNext ==
    \/ Step
    \/ PopOperands
    \/ CellAccess
    \/ EndPass
    \/ RunReturn

OpSpec == OpInit /\ [][OpNext]_vars

-----------------------------------------------------------------------------
(* Decoding of a code segment, instruction by instruction.                 *)

\* The bytes an instruction takes: PUSH and the long-form jumps take two.
InstrWidth(byte) == IF IsPush(byte) \/ byte \in jump_bytes THEN 2 ELSE 1

\* The indices at which the instructions of a segment start, from index
\* i0 on; InstrStartsAt has the run of PUSH instructions from i0 end at i.
RECURSIVE InstrStarts(_, _)
RECURSIVE InstrStartsAt(_, _, _)
InstrStarts(segment, i0) == InstrStartsAt(segment, i0, SkipPush(segment, i0))

InstrStartsAt(segment, i0, i) ==
    {i0 + 2 * k : k \in 0..(((i - i0) \div 2) - 1)}
        \cup (IF i >= Len(segment) THEN {}
              ELSE {i} \cup InstrStarts(segment,
                                        i + InstrWidth(segment[i + 1])))

\* compile has returned an image.
Compiled ==
    phase \in {"compiled", "vm_loaded", "load_error", "running", "finished",
               "vm_error", "cut_off"}

\* run has started.
Started == phase \in {"running", "finished", "vm_error", "cut_off"}

\* A copy of the block of label n lies in the laid-out code at image offset o.
BlockAt(n, o) ==
    /\ n < Len(paths)
    /\ SubSeq(precode, o - Len(header) + 1,
              o - Len(header) + Len(paths[n + 1])) = paths[n + 1]

\* The cells of the grid that hold a token of type t, as <<x, y>>.
CellsOf(grid, t) ==
    UNION {{<<x - 1, y - 1>> :
               x \in {c \in 1..Len(grid[y]) : lex_char(grid[y][c]) = t}} :
           y \in 1..Len(grid)}

-----------------------------------------------------------------------------
(* The properties of the specification, C1 .. C29.                         *)

\* C1: compilation preserves the walking semantics.  Every instruction with
\* an effect that a process executes is the next effect of the robot that
\* walks the grid cell by cell from the process's START token, as long as
\* that robot is on the grid; when run returns, every process has the
\* stack its robot halted with and the memory is the robots' memory.
C1_CompiledCodeWalksTheGrid ==
    /\ (Started /\ last.proc >= 0 /\ last.agreed /\ last.expected[1] # "NONE")
           => last.effect = last.expected
    /\ (phase = "finished" /\ agree)
           => /\ \A i \in 1..Len(processes) :
                     /\ walkers[i].state = "halted"
                     /\ walkers[i].stack = processes[i].stack
              /\ wmemory.cells = memory.cells

\* C2: in every pass of run over the live-process list, each process that
\* was live when the pass began executes exactly one instruction, in load
\* order: when the for loop has reached the end of the list, the processes
\* stepped in this pass are the processes the pass began with.
C2_OneInstructionPerPass ==
    (phase = "running" /\ it >= Len(running)) => stepped = pass_start

\* C3: after a successful compile every long-form JMP/JZ operand of the code
\* segment is an image offset inside the code segment, namely the offset
\* recorded for the label the operand held before linking, and a copy of
\* that label's block starts there.
C3_JumpOperandsResolved ==
    Compiled =>
        \A i \in InstrStarts(code, 0) :
            code[i + 1] \in jump_bytes =>
                /\ i + 1 < Len(code)
                /\ Len(header) <= code[i + 2]
                /\ code[i + 2] < Len(header) + Len(code)
                /\ precode[i + 2] \in DOMAIN label_offsets
                /\ code[i + 2] = label_offsets[precode[i + 2]]
                /\ BlockAt(precode[i + 2], code[i + 2])

\* C3 witness: a returned image with a jump whose operand linking changed.
C3_Witness ==
    /\ phase = "compiled"
    /\ \E i \in InstrStarts(code, 0) :
           /\ code[i + 1] \in jump_bytes
           /\ code[i + 2] # precode[i + 2]

\* C4: after load of a compiled image, the memory cell of every DIGIT token
\* of the grid holds the digit's value, for every grid size and code length
\* (so load does not raise either).
C4_DigitsInMemory ==
    /\ phase # "load_error"
    /\ phase = "vm_loaded" =>
           \A xy \in CellsOf(input_grid, "T_DIGIT") :
               /\ xy[1] + xy[2] * mem_stride < memory.length
               /\ MemGet(memory, xy[1] + xy[2] * mem_stride) =
                      DigitValue(input_grid[xy[2] + 1][xy[1] + 1])

\* C5: after load the memory buffer has as many bytes as the big-endian
\* 16-bit value of header bytes 6-7 says, width x height for a compiled grid.
C5_MemoryLength ==
    phase = "vm_loaded" =>
        /\ memory.length = image[7] * 256 + image[8]
        /\ memory.length = dim.x * dim.y

\* C6: the address of every PUSH instruction of a compiled code segment lies
\* in [0, memLength), memLength the width x height of the grid.
C6_PushAddressInRange ==
    phase = "compiled" =>
        \A i \in InstrStarts(code, 0) :
            IsPush(code[i + 1]) =>
                /\ i + 1 < Len(code)
                /\ (code[i + 1] % 128) * 256 + code[i + 2] < dim.x * dim.y

\* C7: the coalescing pass terminates on every grid whose labels and paths
\* were built: maximally_extend_path never recurses without bound, so the
\* pass never ends in the interpreter giving up the recursion.
C7_CoalescingTerminates ==
    ~(phase = "compile_error" /\ err = "RecursionError")

\* C8: a process that has executed HALT stays stopped, is not in the
\* live-process list, and executes no further instruction (its pc and its
\* stack never change again and no step is attributed to it); the stopped
\* flag is only ever set, and only by the HALT the process itself executes.
C8_HaltIsFinal ==
    [][\A i \in 1..Len(processes) :
           /\ processes[i].stopped =>
                  /\ Len(processes') = Len(processes)
                  /\ processes'[i] = processes[i]
                  /\ \A k \in 1..Len(running') : running'[k] # i - 1
                  /\ stepped' # stepped /\ stepped' # <<>> =>
                         stepped'[Len(stepped')] # i - 1
           /\ (~processes[i].stopped /\ Len(processes') = Len(processes)
                 /\ processes'[i].stopped) =>
                  /\ last'.proc = i - 1
                  /\ last'.effect = <<"HALT">>
                  /\ last'.pc = processes[i].pc]_vars

\* C8 witness: a process has halted and another process, still live, has
\* executed an instruction after that.
C8_Witness ==
    /\ phase = "running"
    /\ \E i \in 1..Len(processes) :
           /\ processes[i].stopped
           /\ last.proc # i - 1
           /\ last.proc >= 0
           /\ last.effect[1] = "PUSH"

\* C9: a path that reaches a COND cell ends with a JZ to the label that
\* walks east from that cell and a JMP to the label that walks west from
\* it; and at run time the first effect of a process after a COND is the
\* first effect of the robot that went east on zero and west on non-zero.
C9_CondBranches ==
    /\ phase = "parsed" =>
           \A n \in 1..Len(paths) :
               \E k \in {PathLength(input_grid, dim.x, jump_labels[n])} :
                   lex_char(TokenAfter(input_grid, jump_labels[n], k)) = "T_COND" =>
                       \E p \in {paths[n]} :
                           /\ Len(p) >= 4
                           /\ p[Len(p) - 3] = make_byte(OP_JZ, 15)
                           /\ p[Len(p) - 1] = make_byte(OP_JMP, 15)
                           /\ jump_labels[p[Len(p) - 2] + 1].direction = dir_vec(">")
                           /\ jump_labels[p[Len(p)] + 1].direction = dir_vec("<")
                           /\ \A t \in {p[Len(p) - 2], p[Len(p)]} :
                                  jump_labels[t + 1].location =
                                      [x |-> StepX(jump_labels[n], k),
                                       y |-> StepY(jump_labels[n], k)]
    /\ (Started /\ last.after_cond /\ last.agreed /\ last.expected[1] # "NONE")
           => last.effect = last.expected

\* C10: the entry table of a compiled image has one entry per START token
\* of the grid, in row-major order of the tokens, each the offset of the
\* first byte of the laid-out block of its START label; load spawns one
\* process per entry, in that order, with that pc and an empty stack.
C10_EntryTable ==
    /\ phase = "compiled" =>
           /\ image[11] = Cardinality(CellsOf(input_grid, "T_START"))
           /\ image[11] = Len(entry_points)
           /\ \A k \in 1..Len(entry_points) :
                  /\ image[11 + k] = label_offsets[entry_points[k]]
                  /\ BlockAt(entry_points[k], image[11 + k])
                  /\ k > 1 => entry_points[k - 1] < entry_points[k]
    /\ phase = "vm_loaded" =>
           /\ Len(processes) = image[11]
           /\ \A k \in 1..Len(processes) :
                  processes[k] = [pc |-> image[11 + k], stack |-> <<>>,
                                  stopped |-> FALSE]

EndsAtCond(grid, labels, n, stop) ==
    lex_char(TokenAfter(grid, labels[n], stop)) = "T_COND"

\* The two labels a COND at the end of the walk of label n defines: those at
\* its cell, whatever their direction.
CondSuccessors(labels, n, stop) ==
    {t \in 1..Len(labels) :
        labels[t].location = [x |-> StepX(labels[n], stop),
                              y |-> StepY(labels[n], stop)]}

\* C12: after path emission both successor labels of every COND cell that a
\* path reaches have refcount >= 2, so the coalescer splices neither: after
\* coalescing the block of that path still ends with the JZ and the JMP that
\* were emitted for the COND.
C12_CondSuccessorsPinned ==
    /\ phase = "parsed" =>
           \A n \in 1..Len(paths) :
               \E k \in {PathLength(input_grid, dim.x, jump_labels[n])} :
                   EndsAtCond(input_grid, jump_labels, n, k) =>
                       \A t \in CondSuccessors(jump_labels, n, k) :
                           jump_labels[t].refcount >= 2
    /\ phase = "coalesced" =>
           \A n \in 1..Len(paths) :
               \E k \in {PathLength(input_grid, dim.x, jump_labels[n])} :
                   EndsAtCond(input_grid, jump_labels, n, k) =>
                       \E p \in {paths[n]} :
                           \E w \in {WalkPath(input_grid, dim.x, jump_labels,
                                              n - 1).path} :
                               /\ Len(p) >= 4
                               /\ SubSeq(p, Len(p) - 3, Len(p)) =
                                      SubSeq(w, Len(w) - 3, Len(w))

\* The process ids the sources of the model can give rise to.
ProcessIds == 0..(Max(MaxLen, 2) - 1)

\* Process p is in the list of live processes.
Live(p) == \E k \in 1..Len(running) : running[k] = p

\* C13: run returns exactly when the list of live processes is empty, and
\* then every loaded process is stopped; only the HALT a process executes
\* stops it; a live process is not starved (as long as run goes on it
\* executes instructions again and again), and once every process has
\* halted run returns.
C13_RunUntilAllHalted ==
    /\ [](phase = "finished" =>
             /\ running = <<>>
             /\ \A i \in 1..Len(processes) : processes[i].stopped)
    /\ [][/\ (phase' = "finished" /\ phase # "finished")
               <=> (phase = "running" /\ running = <<>>)
          /\ \A i \in 1..Len(processes) :
                 (~processes[i].stopped /\ Len(processes') = Len(processes)
                    /\ processes'[i].stopped) =>
                     /\ Decode(image, processes[i].pc) = <<"HALT">>
                     /\ last'.proc = i - 1]_vars
    /\ \A p \in ProcessIds :
           []<>(phase = "running" /\ Live(p))
               => []<><<stepped' = Append(stepped, p)>>_vars
    /\ (phase = "running" /\ \A i \in 1..Len(processes) : processes[i].stopped)
           ~> (phase = "finished")

\* C13 witness: run has returned from two or more processes, one of which
\* halted in a later pass than another (it executed more instructions).
C13_Witness ==
    /\ phase = "finished"
    /\ Len(processes) >= 2
    /\ \E i, j \in 1..Len(processes) :
           /\ processes[i].stack = <<>>
           /\ processes[j].stack # <<>>

\* C14: LOAD and STORE are atomic with respect to the other processes.
\* While the cell loop of one process is in progress (after its pops, up to
\* its eighth cell access) every step is a step of that process: no other
\* process changes, starts a cell loop of its own or completes an
\* instruction, and memory is written by that loop only.  So at most one
\* cell loop is in progress at a time, and no LOAD reads cells that a STORE
\* of another process has written only in part.
C14_LoadStoreAtomic ==
    /\ [](Cardinality({k \in 1..Len(access) : access[k].op # "NONE"}) <= 1)
    /\ [][\A k \in 1..Len(access) :
             access[k].op # "NONE" =>
                 /\ Len(access') = Len(access)
                 /\ \A q \in 1..Len(access) :
                        q # k => /\ processes'[q] = processes[q]
                                 /\ access'[q] = access[q]
                 /\ stepped' = stepped \/ stepped' = Append(stepped, k - 1)
                 /\ access'[k].op = "NONE" <=> stepped' # stepped
                 /\ access[k].op = "LOAD" => memory' = memory]_vars

\* C14 witness: a process is in the middle of the cell loop of a STORE, with
\* some of its cells written, while another process is live and has
\* executed instructions.
C14_Witness ==
    /\ phase = "running"
    /\ \E k \in 1..Len(access) :
           /\ access[k].op = "STORE"
           /\ access[k].i = 4
           /\ \E q \in 1..Len(processes) :
                  /\ q # k
                  /\ Live(q - 1)
                  /\ processes[q].stack # <<>>


\* The cells of the walk a LOAD / STORE with locals a makes lie in the grid
\* of memory m, `stride` cells wide, and are 8 distinct cells.
InBounds(a, m, stride) ==
    /\ \A i \in 0..7 :
           /\ a.x + i * a.dx \in 0..(stride - 1)
           /\ a.y + i * a.dy \in 0..((m.length \div stride) - 1)
    /\ \A i, j \in 0..7 :
           i # j => <<a.x + i * a.dx, a.y + i * a.dy>>
                        # <<a.x + j * a.dx, a.y + j * a.dy>>

\* The coordinates of that walk as they are pushed: x, y, dx, dy.
Walk(a) == <<a.x, a.y, a.dx, a.dy>>

\* The cells of that walk hold only 0 and 1.
BitCells(a, m, stride) ==
    \A i \in 0..7 :
        MemGet(m, (a.x + i * a.dx) + (a.y + i * a.dy) * stride) \in {0, 1}

\* C15: after a STORE of a value v in 0..255 over 8 distinct cells of the
\* grid, a LOAD with the same x, y, dx, dy pushes v; and after a LOAD over 8
\* distinct cells of the grid that hold only 0 and 1, a STORE of the value
\* loaded with the same x, y, dx, dy leaves the memory as it is.
C15_RoundTrip ==
    (/\ last.args.op # "NONE"
     /\ last.error = ""
     /\ InBounds(last.args, memory, mem_stride))
    => /\ (last.args.op = "STORE" /\ last.args.value \in 0..255)
          => LoadByte(Walk(last.args), memory, mem_stride)
                 = [stack |-> <<last.args.value>>, error |-> ""]
       /\ (last.args.op = "LOAD" /\ BitCells(last.args, memory, mem_stride))
          => StoreByte(<<Top(processes[last.proc + 1].stack)>>
                           \o Walk(last.args), memory, mem_stride)
                 = [stack |-> <<>>, memory |-> memory, error |-> ""]

\* 0xAA has been stored along a diagonal of the grid.
C15_Witness ==
    /\ last.args.op = "STORE"
    /\ last.error = ""
    /\ last.args.value = 170
    /\ Walk(last.args) = <<7, 0, -1, 1>>
    /\ InBounds(last.args, memory, mem_stride)
    /\ MemGet(memory, 7) = 1
    /\ MemGet(memory, 14) = 0

\* Bit k of the integer n is set.
Bit(n, k) == (n \div Pow2(k)) % 2 = 1

\* v is the OR over i = 0..7 of the cell (x + i*dx) + (y + i*dy)*stride of
\* m shifted left by 7 - i, (x, y, dx, dy) the walk of a.
IsLoadedValue(v, a, m, stride) ==
    /\ v \in 0..65535
    /\ \A k \in 0..15 :
           Bit(v, k) <=>
               \E i \in 0..7 :
                   /\ k >= 7 - i
                   /\ Bit(MemGet(m, (a.x + i * a.dx) + (a.y + i * a.dy) * stride),
                          k - (7 - i))

\* C16: a LOAD pops dy, dx, y, x in that order (dy is the top) and leaves
\* the rest of the stack as it is; no step of it changes a memory cell or
\* the stack; and when its cells lie in the memory it ends by pushing one
\* value, the OR of the 8 cells, the i-th shifted left by 7 - i.
C16_LoadSemantics ==
    [][\A k \in 1..Len(processes) :
          LET st == processes[k].stack
              n == Len(st)
              a == access[k]
          IN  /\ (a.op = "NONE" /\ access'[k].op = "LOAD")
                 => /\ n >= 4
                    /\ <<access'[k].dy, access'[k].dx, access'[k].y,
                          access'[k].x>>
                           = <<st[n], st[n - 1], st[n - 2], st[n - 3]>>
                    /\ processes'[k].stack = SubSeq(st, 1, n - 4)
                    /\ memory' = memory
              /\ (a.op = "LOAD" /\ access'[k].op = "LOAD")
                 => /\ Walk(access'[k]) = Walk(a)
                    /\ processes'[k].stack = st
                    /\ memory' = memory
              /\ (a.op = "LOAD" /\ access'[k].op = "NONE")
                 => /\ memory' = memory
                    /\ (\A i \in 0..7 :
                           CellOffset(a.x, a.y, a.dx, a.dy, i, mem_stride)
                               \in 0..(memory.length - 1))
                       => /\ last'.error = ""
                          /\ Len(processes'[k].stack) = n + 1
                          /\ SubSeq(processes'[k].stack, 1, n) = st
                          /\ IsLoadedValue(Top(processes'[k].stack), a,
                                           memory, mem_stride)]_vars

\* A LOAD along the first row has pushed 0xAA above the element that was
\* below its operands.
C16_Witness ==
    /\ last.args.op = "LOAD"
    /\ last.error = ""
    /\ Walk(last.args) = <<0, 0, 1, 0>>
    /\ processes[last.proc + 1].stack = <<5, 170>>

\* q is the quotient of b by a rounded toward negative infinity.
IsFloorQuotient(q, b, a) ==
    IF a > 0 THEN q * a <= b /\ b < q * a + a
    ELSE q * a >= b /\ b > q * a + a

\* r is b OP a, OP the binary operation of sub-op op; a is not 0 when OP
\* divides.
IsBinaryResult(op, b, a, r) ==
    CASE op = STACK_SUB -> r + a = b
      [] op = STACK_ADD -> r = a + b
      [] op = STACK_MUL -> r = a * b
      [] op = STACK_DIV -> IsFloorQuotient(r, b, a)
      [] op = STACK_MOD ->
             \E q \in -(MaxValue + 1)..(MaxValue + 1) :
                 IsFloorQuotient(q, b, a) /\ r = b - q * a
      [] op = STACK_AND ->
             /\ r < 0 <=> (b < 0 /\ a < 0)
             /\ \A k \in 0..15 : Bit(r, k) <=> (Bit(b, k) /\ Bit(a, k))
      [] op = STACK_OR ->
             /\ r < 0 <=> (b < 0 \/ a < 0)
             /\ \A k \in 0..15 : Bit(r, k) <=> (Bit(b, k) \/ Bit(a, k))

\* C17: a binary stack operation (SUB, ADD, MUL, DIV, MOD, AND, OR) on a
\* stack whose top is a and whose next element is b, a not 0 when it
\* divides, raises nothing, replaces the two by b OP a and leaves the
\* elements below as they are; the quotient of DIV and the one MOD takes
\* the remainder of are rounded toward negative infinity.
C17_BinaryStackOps ==
    [][\A k \in 1..Len(processes) :
          LET st == processes[k].stack
              n == Len(st)
              eff == Decode(bytecode, processes[k].pc)
          IN  (/\ processes'[k] # processes[k]
               /\ access[k].op = "NONE"
               /\ eff[1] = "STACK"
               /\ eff[2] \in STACK_SUB..STACK_OR
               /\ n >= 2
               /\ eff[2] \in {STACK_DIV, STACK_MOD} => st[n] # 0)
              => /\ last'.error = ""
                 /\ Len(processes'[k].stack) = n - 1
                 /\ SubSeq(processes'[k].stack, 1, n - 2) = SubSeq(st, 1, n - 2)
                 /\ IsBinaryResult(eff[2], st[n - 1], st[n],
                                   Top(processes'[k].stack))]_vars

\* A division has pushed -4, above the element that was below its operands.
C17_Witness ==
    /\ last.effect = <<"STACK", STACK_DIV>>
    /\ last.error = ""
    /\ processes[last.proc + 1].stack = <<5, -4>>

\* The number of labels a grid defines: one for each START, one for each
\* TURN, two for each COND.
LabelCount(grid) ==
    LET cells == UNION {{<<y, x>> : x \in 1..Len(grid[y])} : y \in 1..Len(grid)}
        of(types) == Cardinality({c \in cells :
                                     lex_char(grid[c[1]][c[2]]) \in types})
    IN  of({"T_START", "T_TURN"}) + 2 * of({"T_COND"})

\* C18: the enumeration of the labels ends with the too-many-labels error
\* exactly when the grid defines more than 255 labels.
C18_TooManyLabels ==
    [][(phase = "loaded" /\ phase' # "loaded")
          => ((phase' = "compile_error" /\ err' = "ValueError")
                  <=> LabelCount(input_grid) > 255)]_vars

\* The first 4 bytes are not "JED?", or bytes 4 and 5 are not 1, 0.
BadHeader(bytes) ==
    \/ Len(bytes) < 4
    \/ <<bytes[1], bytes[2], bytes[3], bytes[4]>> # <<74, 69, 68, 63>>
    \/ Len(bytes) < 6
    \/ <<bytes[5], bytes[6]>> # <<1, 0>>

\* C19: once load has been handed bytes whose magic or version is not the
\* expected one, it has raised an error, the machine has no process, no
\* memory and no stride, and a run of it executes no instruction.
C19_BadImageRejected ==
    (/\ phase \in {"vm_loaded", "load_error", "running", "vm_error",
                    "cut_off", "finished"}
     /\ BadHeader(bytecode))
    => /\ phase \in {"load_error", "running", "finished"}
       /\ err # ""
       /\ processes = <<>>
       /\ memory = NoMemory
       /\ running = <<>>
       /\ stepped = <<>>
       /\ last = NoLast

\* A run has returned after the load of an image of a program with a robot,
\* the first byte of whose magic was changed.
C19_Witness ==
    /\ phase = "finished"
    /\ Len(bytecode) = Len(image)
    /\ bytecode[1] # image[1]
    /\ image[11] > 0
    /\ err = "ValueError"

\* The positions (from 1) in bytes at which a record of the data segment
\* starts: two bytes of address, one of value.
RecordStarts(bytes) ==
    {k \in 1..Len(bytes) : k > bytes[10] /\ (k - bytes[10]) % 3 = 1}

\* The memory m holds, in each cell a record of bytes names, the value of
\* the last such record, and 0 in every other cell.
InitialisedFrom(m, bytes) ==
    \A a \in DOMAIN m.cells
               \cup {bytes[k] * 256 + bytes[k + 1] : k \in RecordStarts(bytes)} :
        LET ks == {k \in RecordStarts(bytes) : bytes[k] * 256 + bytes[k + 1] = a}
        IN  IF ks = {} THEN MemGet(m, a) = 0
            ELSE \E k \in ks : /\ \A j \in ks : j <= k
                                /\ MemGet(m, a) = bytes[k + 2]

\* C20: when load returns, the memory holds what the data segment of the
\* image says and nothing else; and no step of run changes a byte of the
\* loaded image, whatever it does to the memory.
C20_ImageNotModified ==
    /\ [](phase = "vm_loaded" => InitialisedFrom(memory, bytecode))
    /\ [][phase = "running" => bytecode' = bytecode]_vars

\* A STORE has ended after which a cell no longer holds what the data
\* segment of the image says.
C20_Witness ==
    /\ last.args.op = "STORE"
    /\ last.error = ""
    /\ Len(bytecode) >= 10
    /\ ~InitialisedFrom(memory, bytecode)

\* The indices from i0 on at which an instruction of a block starts: a PUSH
\* and a long-form jump are two bytes wide, every other instruction one.
RECURSIVE InstructionStarts(_, _)
InstructionStarts(path, i0) ==
    LET i == SkipPush(path, i0)
    IN  {j \in i0..Min(i, Len(path) - 1) : (j - i0) % 2 = 0}
        \cup (IF i >= Len(path) THEN {}
              ELSE InstructionStarts(path, IF path[i + 1] \in jump_bytes
                                           THEN i + 2 ELSE i + 1))

\* C21: the scan of the coalescer and of the layout tests a byte of a block
\* only where an instruction starts, and after a splice the coalescer goes
\* on at the start of an instruction of the bytes it spliced in or at the
\* end of the block.
C21_ScansAtInstructionStarts ==
    phase \in {"parsed", "coalesced"}
    => \A n \in 1..Len(paths) :
           /\ ScanExamined(paths[n], 0) \subseteq InstructionStarts(paths[n], 0)
           /\ phase = "parsed"
              => \A i \in InstructionStarts(paths[n], 0) :
                     (/\ paths[n][i + 1] \in jump_bytes
                      /\ i + 1 < Len(paths[n])
                      /\ paths[n][i + 2] < Len(jump_labels)
                      /\ Inlinable(jump_labels[paths[n][i + 2] + 1]))
                     => AfterSplice(i)
                            \in InstructionStarts(
                                    Splice(paths[n], i,
                                           paths[paths[n][i + 2] + 1]), 0)
                                \cup {Len(Splice(paths[n], i,
                                                 paths[paths[n][i + 2] + 1]))}

\* The labels the jumps of the block of label n name.
JumpTargets(n) ==
    {paths[n + 1][i + 2] :
        i \in {j \in InstructionStarts(paths[n + 1], 0) :
                  paths[n + 1][j + 1] \in jump_bytes /\ j + 1 < Len(paths[n + 1])}}

\* The labels reachable from the labels of S through the jumps of the blocks.
RECURSIVE ReachableFrom(_)
ReachableFrom(S) ==
    LET T == S \cup {t \in UNION {JumpTargets(n) : n \in S} : t < Len(paths)}
    IN  IF T = S THEN S ELSE ReachableFrom(T)

\* The sum of the lengths of the blocks of the labels of S.
RECURSIVE BlockBytes(_)
BlockBytes(S) ==
    IF S = {} THEN 0
    ELSE LET n == CHOOSE m \in S : TRUE
         IN  Len(paths[n + 1]) + BlockBytes(S \ {n})

\* C22: when the layout is done, label_offsets has an offset for exactly
\* the labels reachable from an entry point, a copy of the block of each
\* lies at its offset, no two of these copies overlap, and the code segment
\* holds nothing but these copies.
C22_LayoutOnce ==
    phase = "laid_out"
    => LET R == ReachableFrom({entry_points[k] : k \in 1..Len(entry_points)})
       IN  /\ DOMAIN label_offsets = R
           /\ \A n \in R : BlockAt(n, label_offsets[n])
           /\ \A n, m \in R :
                  n # m => \/ label_offsets[n] + Len(paths[n + 1])
                                 <= label_offsets[m]
                           \/ label_offsets[m] + Len(paths[m + 1])
                                 <= label_offsets[n]
           /\ Len(precode) = BlockBytes(R)

\* C23: while the image compile returned is run, the pc of every process
\* that has not halted lies in the code segment, at the first byte of an
\* instruction.
C23_PcAtInstruction ==
    (phase \in {"vm_loaded", "running"} /\ bytecode = image)
    => \A k \in 1..Len(processes) :
           ~processes[k].stopped
           => /\ Len(header) <= processes[k].pc
              /\ processes[k].pc < Len(header) + Len(code)
              /\ processes[k].pc - Len(header) \in InstructionStarts(code, 0)

\* The path of a label leaves the grid before it meets a terminator: no
\* cell k steps from the label's holds a HALT, TURN, START or COND with
\* all the cells up to it on the grid.
LeavesGrid(grid, label) ==
    LET AtX(k) == label.location.x + k * label.direction.x
        AtY(k) == label.location.y + k * label.direction.y
        Inside(k) == /\ AtY(k) \in 0..(Len(grid) - 1)
                     /\ AtX(k) \in 0..(Len(grid[AtY(k) + 1]) - 1)
    IN  ~\E k \in 1..Max(Len(grid), Len(grid[1])) :
            /\ \A j \in 1..k : Inside(j)
            /\ lex_char(grid[AtY(k) + 1][AtX(k) + 1])
                   \in {"T_HALT", "T_TURN", "T_START", "T_COND"}

\* C24: parse_paths ends with an error when the path of a label leaves
\* the grid before it meets a terminator.
C24_PathsStayOnGrid ==
    [][(phase = "heads" /\ phase' # "heads")
          => ((\E n \in 1..Len(jump_labels) :
                   LeavesGrid(input_grid, jump_labels[n]))
                  => phase' = "compile_error")]_vars

\* The number of jump instructions of all the blocks that target label n.
JumpsTo(n) ==
    Cardinality({bi \in UNION {{<<b, i>> : i \in InstructionStarts(paths[b], 0)} :
                                  b \in 1..Len(paths)} :
                    /\ paths[bi[1]][bi[2] + 1] \in jump_bytes
                    /\ bi[2] + 1 < Len(paths[bi[1]])
                    /\ paths[bi[1]][bi[2] + 2] = n})

\* The token the label stands on.
LabelToken(label) ==
    lex_char(input_grid[label.location.y + 1][label.location.x + 1])

\* C25: after parse_paths the refcount of a label is its pin plus the
\* number of jumps that target it, the pin 1 for a START, 0 for a TURN
\* and 1 for one of the two labels of a COND, 0 for the other; and the
\* block of a TURN label with refcount < 2 has at most one jump to it and
\* is spliced at most once by the coalescer.
C25_RefcountsCountJumps ==
    phase = "parsed"
    => \A n \in 1..Len(jump_labels) :
           LET pin == jump_labels[n].refcount - JumpsTo(n - 1)
           IN  /\ LabelToken(jump_labels[n]) = "T_START" => pin = 1
               /\ LabelToken(jump_labels[n]) = "T_TURN" => pin = 0
               /\ LabelToken(jump_labels[n]) = "T_COND"
                  => /\ pin \in {0, 1}
                     /\ \A m \in 1..Len(jump_labels) :
                            (/\ m # n
                             /\ jump_labels[m].location = jump_labels[n].location)
                            => pin + jump_labels[m].refcount - JumpsTo(m - 1) = 1
               /\ (/\ LabelToken(jump_labels[n]) = "T_TURN"
                   /\ jump_labels[n].refcount < 2)
                  => /\ JumpsTo(n - 1) <= 1
                     /\ Cardinality(
                            {k \in 1..Len(CoalesceSplices(paths, jump_labels, 0)) :
                                CoalesceSplices(paths, jump_labels, 0)[k] = n - 1})
                            <= 1

\* C26: an instruction that raises nothing moves the program counter as
\* follows.  LOAD, STORE and a stack operation: by 1.  PUSH: by 2.  JZ pops
\* one value, whatever it is; when the value is 0 the program counter is
\* the target, otherwise it moves by 1 (short form) or by 2 (long form,
\* past the operand).  JMP: the program counter is the target.  The target
\* is the byte after the opcode in the long form (argument 15) and the
\* argument itself in the short form.
C26_PcStepping ==
    [][\A k \in 1..Len(processes) :
          LET pc == processes[k].pc
              st == processes[k].stack
              npc == processes'[k].pc
              byte == bytecode[pc + 1]
              op == byte \div 16
              long == byte % 16 = 15
              target == IF long THEN bytecode[pc + 2] ELSE byte % 16
              width == IF long THEN 2 ELSE 1
          IN  (/\ stepped' = Append(stepped, k - 1)
               /\ phase' # "vm_error"
               /\ pc \in 0..(Len(bytecode) - 1))
              => /\ op \in {1, 2, 3} => npc = pc + 1
                 /\ op >= 8 => npc = pc + 2
                 /\ op = 5 =>
                        /\ st # <<>>
                        /\ processes'[k].stack = SubSeq(st, 1, Len(st) - 1)
                        /\ st[Len(st)] = 0 => npc = target
                        /\ st[Len(st)] # 0 => npc = pc + width
                 /\ op = 4 => npc = target /\ processes'[k].stack = st]_vars

\* A long-form JZ at 12 has popped a 0 and left the process at its operand,
\* 14, the HALT.
C26_Witness ==
    /\ last.effect = <<"COND">>
    /\ last.pc = 12
    /\ last.error = ""
    /\ bytecode[13] = 95
    /\ bytecode[14] = 14
    /\ processes[1].pc = 14
    /\ processes[1].stack = <<5>>

\* The cell the i-th iteration of the STORE a addresses.
StoreCell(a, i, stride) == (a.x + i * a.dx) + (a.y + i * a.dy) * stride

\* C27: a STORE pops dy, dx, y, x, value in that order (dy is the top) and
\* leaves the rest of the stack as it is.  Its i-th iteration (i = 0 .. 7),
\* when the cell (x + i*dx) + (y + i*dy)*stride lies in the memory, makes
\* that cell bit 7 - i of value and changes no other cell and not the
\* stack.  When the eight cells lie in the memory the STORE raises nothing,
\* pushes nothing, and each of the cells then holds 0 or 1: the bit of the
\* last iteration that addressed it.
C27_StoreSemantics ==
    [][\A k \in 1..Len(processes) :
          LET st == processes[k].stack
              n == Len(st)
              a == access[k]
              cell == StoreCell(a, a.i, mem_stride)
          IN  /\ (a.op = "NONE" /\ access'[k].op = "STORE")
                 => /\ n >= 5
                    /\ <<access'[k].dy, access'[k].dx, access'[k].y,
                          access'[k].x, access'[k].value>>
                           = <<st[n], st[n - 1], st[n - 2], st[n - 3], st[n - 4]>>
                    /\ access'[k].i = 0
                    /\ processes'[k].stack = SubSeq(st, 1, n - 5)
                    /\ memory' = memory
              /\ (a.op = "STORE" /\ access'[k] # a
                    /\ cell \in 0..(memory.length - 1))
                 => /\ MemGet(memory', cell)
                           = (IF Bit(a.value, 7 - a.i) THEN 1 ELSE 0)
                    /\ \A c \in 0..(memory.length - 1) \ {cell} :
                           MemGet(memory', c) = MemGet(memory, c)
                    /\ memory'.length = memory.length
                    /\ processes'[k].stack = st
                    /\ access'[k].op = "STORE"
                           => /\ access'[k].i = a.i + 1
                              /\ access'[k].value = a.value
                              /\ <<access'[k].x, access'[k].y, access'[k].dx,
                                    access'[k].dy>> = <<a.x, a.y, a.dx, a.dy>>
              /\ (a.op = "STORE" /\ access'[k].op = "NONE"
                    /\ \A i \in 0..7 :
                           StoreCell(a, i, mem_stride) \in 0..(memory.length - 1))
                 => /\ a.i = 7
                    /\ last'.error = ""
                    /\ processes'[k].stack = st
                    /\ \A i \in 0..7 :
                           LET final == CHOOSE j \in i..7 :
                                   /\ StoreCell(a, j, mem_stride)
                                          = StoreCell(a, i, mem_stride)
                                   /\ \A h \in (j + 1)..7 :
                                          StoreCell(a, h, mem_stride)
                                              # StoreCell(a, i, mem_stride)
                           IN  MemGet(memory', StoreCell(a, i, mem_stride))
                                   = (IF Bit(a.value, 7 - final) THEN 1 ELSE 0)]_vars

\* A STORE of 0xA5 down the first column has ended: the column holds
\* 1 0 1 0 0 1 0 1, the next column is as it was, 5 is left on the stack.
C27_Witness ==
    /\ last.args.op = "STORE"
    /\ last.error = ""
    /\ last.args.value = 165
    /\ <<last.args.x, last.args.y, last.args.dx, last.args.dy>> = <<0, 0, 0, 1>>
    /\ mem_stride = 8
    /\ [i \in 0..7 |-> MemGet(memory, 8 * i)] = [i \in 0..7 |->
           IF i \in {0, 2, 5, 7} THEN 1 ELSE 0]
    /\ \A i \in 0..7 : MemGet(memory, 8 * i + 1) = 1
    /\ processes[last.proc + 1].stack = <<5>>

\* C29: in every image compile returns, the data-segment byte of the
\* header (offset 9) is the length of the header plus the length of the
\* code, the offset of the first record of the data segment.
C29_DataOffsetIsExact ==
    Compiled => image[10] = Len(header) + Len(code)

\* C28: the interpreter and the compiler with the machine agree.  When a
\* grid with a single START has been compiled, loaded and run until its
\* process halted, and interpreted until its robot halted, the robot has
\* halted with the stack of the process, and every digit cell of the
\* interpreter's grid holds what the machine's memory holds for the cell.
C28_InterpreterAgrees ==
    (/\ room.phase = "finished"
     /\ Len(room.halted) = 1
     /\ phase = "finished"
     /\ err = ""
     /\ bytecode = image
     /\ Len(processes) = 1)
    => /\ room.halted[1].stack = processes[1].stack
       /\ \A y \in 1..Len(room.grid) : \A x \in 1..Len(room.grid[y]) :
              room.grid[y][x] \in Digits
                  => DigitValue(room.grid[y][x])
                         = MemGet(memory, (x - 1) + (y - 1) * mem_stride)

=============================================================================
